---- MODULE Spec2Model ----
(***************************************************************************)
(* Body-graph resolution of SimpleEDTerraform: the provider builders of    *)
(* EdsmApiClient.cpp (EDSM and EDAstro), graph closure and the             *)
(* reachability check, and the reply handlers that turn a builder's list   *)
(* into systemBodiesReady or requestFailed; SystemModelBuilder's body map, *)
(* mergeBodies, the aggregated request of requestSystemBodies, and readInt *)
(* with the alternate parent fields it feeds.                              *)
(***************************************************************************)
EXTENDS Integers, Sequences, FiniteSets, Bags, TLC

VARIABLES
    pc,               \* position in the handler / builder pipeline
    provider,         \* "EDSM" | "EDASTRO" | "LIST" (a bare body list, no provider)
    reply,            \* outcome of the network reply the handler receives
    doc,              \* the JSON document of the reply
    sysObj,           \* the object handed to parseEdastroBodiesFromObject
    pending,          \* the objects parseEdastroBodies has still to try
    bodies,           \* QVector<CelestialBody>
    parentsByBodyId,  \* QHash<int, QVector<ParentRef>>
    diagnostics,      \* the messages passed to onDebugInfo, as a bag
    hierarchyValid,   \* result of prepareBodiesForGraph / validateHierarchy...
    signal,           \* terminal signal emitted by the client
    walkCur,          \* bodyId argument of the pending canReachStarOrCenterRoot call
    recursionGuard,   \* QSet<int> recursionGuard of the walk
    walkCalls,        \* canReachStarOrCenterRoot invocations executed so far
    walkVerdict,      \* value returned by the outermost invocation
    bodyMap,          \* QHash<int, CelestialBody> of SystemModelBuilder::buildBodyMap
    edsmBodies,       \* RequestAggregationState::edsmBodies / first argument of mergeBodies
    spanshBodies,     \* RequestAggregationState::spanshBodies / second argument of mergeBodies
    hadConflict,      \* SystemBodiesResult::hadConflict
    request,          \* the arguments of requestSystemBodies, RequestAggregationState, the replies
    emitted           \* the terminal signals emitted so far, in order

vars == <<pc, provider, reply, doc, sysObj, pending, bodies, parentsByBodyId, diagnostics,
          hierarchyValid, signal, walkCur, recursionGuard, walkCalls, walkVerdict,
          bodyMap, edsmBodies, spanshBodies, hadConflict, request, emitted>>

pipelineVars == <<provider, reply, doc, sysObj, pending, parentsByBodyId, signal>>
walkVars == <<walkCur, recursionGuard, walkCalls, walkVerdict>>
mergeVars == <<edsmBodies, spanshBodies, hadConflict>>
auxVars == <<bodyMap, mergeVars, request, emitted>>

(***************************************************************************)
(* Bounds of the model.                                                    *)
(***************************************************************************)
MaxBodies == 2      \* longest bare body list handed to the validator
MaxEntries == 2     \* most raw body entries in a provider document
MaxChain == 2       \* longest raw parent chain of an entry
MaxMerged == 3      \* most bodies in the two lists handed to mergeBodies

(***************************************************************************)
(* CelestialBody.h                                                         *)
(***************************************************************************)
kExternalVirtualBarycenterMarkerId == 0
kVirtualBarycenterRootId == -1000000000
kVirtualBarycenterRootType == "Null"

\* A default-constructed CelestialBody.
CelestialBody ==
    [id |-> -1, parentId |-> -1, parentRelationType |-> "", name |-> "",
     type |-> "", orbitsBarycenter |-> FALSE, bodyClass |-> "Unknown",
     children |-> <<>>]

\* No value yet (a verdict not returned, a reply not received).
None == "none"

\* An absent JSON member, an absent document.
Absent == [absent |-> TRUE]

\* No payload: the reply failed, or there is no reply at all.
NoDocument == [root |-> "none", object |-> Absent, items |-> <<>>]

SeqToSet(s) == {s[i] : i \in DOMAIN s}

\* The messages of a sequence, order forgotten.
SeqToBag(s) == [d \in SeqToSet(s) |-> Cardinality({i \in DOMAIN s : s[i] = d})]

RECURSIVE SeqsUpTo(_, _)
\* All sequences over S of length at most n.
SeqsUpTo(S, n) ==
    IF n = 0 THEN {<<>>}
    ELSE LET shorter == SeqsUpTo(S, n - 1)
         IN  shorter \cup {Append(s, x) : s \in {t \in shorter : Len(t) = n - 1}, x \in S}

(***************************************************************************)
(* Graph closure: ensureCentralRootBody, attachDetachedBodiesToCenterRoot  *)
(***************************************************************************)
\* The ids a QSet<int>/QHash<int,...> built from the list holds (id >= 0 only).
KnownIds(list) == {list[i].id : i \in DOMAIN list} \cap Nat

\* QHash<int, CelestialBody> filled by insert() in list order: the last entry
\* of an id replaces the earlier ones.
BodyById(list) ==
    [id \in KnownIds(list) |->
        list[CHOOSE i \in DOMAIN list :
                /\ list[i].id = id
                /\ \A j \in DOMAIN list : list[j].id = id => j <= i]]

SystemCenter ==
    [CelestialBody EXCEPT !.id = kExternalVirtualBarycenterMarkerId,
                          !.name = "System Center", !.type = "Null"]

ensureCentralRootBody(list) ==
    IF \E i \in DOMAIN list : list[i].id = kExternalVirtualBarycenterMarkerId
    THEN list
    ELSE Append(list, SystemCenter)

\* A mutant of IsDetached: a parent id unknown to the list is left in place.
IsDetachedAbsentOnly(body, knownIds) == body.parentId < 0

\* The condition under which a body is re-parented onto the centre root.
IsDetached(body, knownIds) == body.parentId < 0 \/ body.parentId \notin knownIds

attachDetachedBodiesToCenterRoot(list) ==
    LET knownIds == KnownIds(list)
    IN  [i \in DOMAIN list |->
            IF list[i].id = kExternalVirtualBarycenterMarkerId THEN list[i]
            ELSE IF IsDetached(list[i], knownIds)
                 THEN [list[i] EXCEPT !.parentId = kExternalVirtualBarycenterMarkerId,
                                      !.parentRelationType = "Null",
                                      !.orbitsBarycenter = TRUE]
                 ELSE list[i]]

(***************************************************************************)
(* Reachability check                                                      *)
(***************************************************************************)
\* A mutant of GuardContains: the recursion guard is never consulted.
GuardNeverHit(guard, bodyId) == FALSE

\* recursionGuard->contains(bodyId)
GuardContains(guard, bodyId) == bodyId \in guard

\* A mutant of IsWalkTarget: only the centre root ends a walk.
IsWalkTargetRootOnly(body) == body.id = kExternalVirtualBarycenterMarkerId

\* The bodies at which a walk stops with success.
IsWalkTarget(body) ==
    body.bodyClass = "Star" \/ body.id = kExternalVirtualBarycenterMarkerId

RECURSIVE canReachStarOrCenterRoot(_, _, _)
canReachStarOrCenterRoot(bodyId, bodyById, guard) ==
    IF GuardContains(guard, bodyId) THEN FALSE
    ELSE IF bodyId \notin DOMAIN bodyById THEN FALSE
    ELSE LET body == bodyById[bodyId]
         IN  IF IsWalkTarget(body) THEN TRUE
             ELSE IF body.parentId < 0 \/ body.parentId \notin DOMAIN bodyById THEN FALSE
             ELSE canReachStarOrCenterRoot(body.parentId, bodyById, guard \cup {bodyId})

\* The indices, in list order, of the bodies the check reports.
FailingIndices(list) ==
    LET bodyById == BodyById(list)
    IN  {i \in DOMAIN list :
            /\ list[i].id >= 0
            /\ ~canReachStarOrCenterRoot(list[i].id, bodyById, {})}

RECURSIVE IdsAt(_, _, _)
\* The ids of list at the indices of I that are >= from, in list order.
IdsAt(list, I, from) ==
    IF from > Len(list) THEN <<>>
    ELSE (IF from \in I THEN <<list[from].id>> ELSE <<>>) \o IdsAt(list, I, from + 1)

\* One "[WARN] ... no path to Star:* or Null:0" message per reported body.
UnreachableDiag(id) == [kind |-> "unreachable", bodyId |-> id]

validateHierarchyCanReachStarOrCenterRoot(list) ==
    LET failing == FailingIndices(list)
        ids == IdsAt(list, failing, 1)
    IN  [allValid |-> failing = {},
         diagnostics |-> [k \in DOMAIN ids |-> UnreachableDiag(ids[k])]]

prepareBodiesForGraph(list) ==
    LET closed == attachDetachedBodiesToCenterRoot(ensureCentralRootBody(list))
        checked == validateHierarchyCanReachStarOrCenterRoot(closed)
    IN  [bodies |-> closed, valid |-> checked.allValid,
         diagnostics |-> checked.diagnostics]

(***************************************************************************)
(* Bare body lists: the inputs of the validator taken on its own.          *)
(***************************************************************************)
GraphIds == {0, 1, 2}

GraphBodies ==
    {[CelestialBody EXCEPT !.id = i, !.parentId = p, !.bodyClass = c] :
        i \in GraphIds, p \in {-1} \cup GraphIds, c \in {"Star", "Planet"}}
    \cup {CelestialBody}

BodyLists == SeqsUpTo(GraphBodies, MaxBodies)

IdlePipeline ==
    /\ provider = "LIST"
    /\ reply = None
    /\ doc = NoDocument
    /\ sysObj = Absent
    /\ pending = <<>>
    /\ parentsByBodyId = <<>>
    /\ signal = [name |-> "none"]

\* No map built, no merge and no aggregated request under way.
IdleAux ==
    /\ bodyMap = <<>>
    /\ edsmBodies = <<>>
    /\ spanshBodies = <<>>
    /\ hadConflict = FALSE
    /\ request = Absent
    /\ emitted = <<>>

IdleWalk ==
    /\ walkCur = None
    /\ recursionGuard = {}
    /\ walkCalls = 0
    /\ walkVerdict = None

\* validateHierarchyCanReachStarOrCenterRoot applied to a bare list.
InitValidate ==
    /\ pc = "list"
    /\ bodies \in BodyLists
    /\ diagnostics = EmptyBag
    /\ hierarchyValid = None
    /\ IdlePipeline
    /\ IdleWalk
    /\ IdleAux

ApplyValidate ==
    /\ pc = "list"
    /\ LET checked == validateHierarchyCanReachStarOrCenterRoot(bodies)
       IN  /\ hierarchyValid' = checked.allValid
           /\ diagnostics' = diagnostics (+) SeqToBag(checked.diagnostics)
    /\ pc' = "validated"
    /\ UNCHANGED <<bodies, pipelineVars, walkVars, auxVars>>

NextValidate == ApplyValidate

SpecValidate == InitValidate /\ [][NextValidate]_vars

(***************************************************************************)
(* One walk of canReachStarOrCenterRoot, one invocation per step.          *)
(***************************************************************************)
InitWalk ==
    /\ pc = "walk"
    /\ bodies \in BodyLists
    /\ \E i \in DOMAIN bodies : bodies[i].id >= 0 /\ walkCur = bodies[i].id
    /\ recursionGuard = {}
    /\ walkCalls = 0
    /\ walkVerdict = None
    /\ diagnostics = EmptyBag
    /\ hierarchyValid = None
    /\ IdlePipeline
    /\ IdleAux

\* The invocation returns at once; every frame below it removes its id from
\* the guard on the way out.
WalkReturn(result) ==
    /\ walkVerdict' = result
    /\ recursionGuard' = {}
    /\ walkCur' = walkCur
    /\ pc' = "walked"

WalkCall ==
    /\ pc = "walk"
    /\ walkCalls <= Len(bodies) + 1
    /\ walkCalls' = walkCalls + 1
    /\ LET bodyById == BodyById(bodies)
       IN  IF GuardContains(recursionGuard, walkCur) THEN WalkReturn(FALSE)
           ELSE IF walkCur \notin DOMAIN bodyById THEN WalkReturn(FALSE)
           ELSE LET body == bodyById[walkCur]
                IN  IF IsWalkTarget(body) THEN WalkReturn(TRUE)
                    ELSE IF body.parentId < 0 \/ body.parentId \notin DOMAIN bodyById
                         THEN WalkReturn(FALSE)
                         ELSE /\ recursionGuard' = recursionGuard \cup {walkCur}
                              /\ walkCur' = body.parentId
                              /\ UNCHANGED <<walkVerdict, pc>>
    /\ UNCHANGED <<bodies, diagnostics, hierarchyValid, pipelineVars, auxVars>>

NextWalk == WalkCall

SpecWalk == InitWalk /\ [][NextWalk]_vars

(***************************************************************************)
(* Text helpers.  Strings are drawn from a fixed vocabulary; the words a   *)
(* text contains (case-insensitively) and its lower-case form are tables.  *)
(***************************************************************************)
WordsIn(text) ==
    CASE text = "Null" -> {"null"}
      [] text = "Star" -> {"star"}
      [] text = "Planet" -> {"planet"}
      [] text = "Moon" -> {"moon"}
      [] text = "Barycentre" -> {"bary", "barycentre"}
      [] text = "Barycenter" -> {"bary", "barycenter"}
      [] text = "stars" -> {"star"}
      [] text = "planets" -> {"planet"}
      [] text = "moons" -> {"moon"}
      [] text = "barycentres" -> {"bary", "barycentre"}
      [] text = "barycenters" -> {"bary", "barycenter"}
      [] OTHER -> {}

\* QString::contains(word, Qt::CaseInsensitive)
ContainsInsensitive(text, word) == word \in WordsIn(text)

\* QString::toLower
ToLower(text) ==
    CASE text = "Null" -> "null"
      [] text = "Star" -> "star"
      [] text = "Planet" -> "planet"
      [] text = "Moon" -> "moon"
      [] OTHER -> text

\* OrbitClassifier::isBarycenterType
isBarycenterType(type) ==
    ContainsInsensitive(type, "barycentre") \/ ContainsInsensitive(type, "barycenter")

classifyBodyClassFromType(bodyType) ==
    IF isBarycenterType(bodyType) THEN "Barycenter"
    ELSE IF ContainsInsensitive(bodyType, "star") THEN "Star"
    ELSE IF ContainsInsensitive(bodyType, "moon") THEN "Moon"
    ELSE IF \/ ContainsInsensitive(bodyType, "planet")
            \/ ContainsInsensitive(bodyType, "world")
            \/ ContainsInsensitive(bodyType, "giant") THEN "Planet"
    ELSE "Unknown"

(***************************************************************************)
(* Parent references                                                       *)
(***************************************************************************)
ParentRef(type, bodyId) == [type |-> type, bodyId |-> bodyId]

VirtualRootRef == ParentRef(kVirtualBarycenterRootType, kVirtualBarycenterRootId)

isBarycenterRef(type) ==
    ContainsInsensitive(type, "null") \/ ContainsInsensitive(type, "bary")

isVirtualRootRef(ref) ==
    /\ ref.bodyId = kVirtualBarycenterRootId
    /\ ToLower(ref.type) = ToLower(kVirtualBarycenterRootType)

parentRefKey(ref) == <<ToLower(ref.type), ref.bodyId>>

\* "Type:id;Type:id": a piece without a type before the colon is skipped.
parseParentChainFromString(pieces) ==
    SelectSeq(pieces, LAMBDA piece : piece.type # "")

\* [{"Type": id}, ...]: an item whose id is negative is skipped.
parseParentChainFromArray(items) ==
    SelectSeq(items, LAMBDA item : item.bodyId >= 0)

\* The chain read from the `parents` member of a raw entry.
ParentChainOf(entry) ==
    LET fromString == IF entry.parentsForm = "string"
                      THEN parseParentChainFromString(entry.parents) ELSE <<>>
    IN  IF fromString # <<>> THEN fromString
        ELSE IF entry.parentsForm = "array"
             THEN parseParentChainFromArray(entry.parents) ELSE <<>>

isCandidateValid(candidate, existingBodyIds, barycenterBodyIds) ==
    IF isVirtualRootRef(candidate) THEN TRUE
    ELSE IF candidate.bodyId \notin existingBodyIds THEN FALSE
    ELSE IF isBarycenterRef(candidate.type) THEN candidate.bodyId \in barycenterBodyIds
    ELSE TRUE

\* The index applyDirectParentFromChain settles on (chain non-empty).
SelectedIndex(parentChain, existingBodyIds, barycenterBodyIds) ==
    LET valid == {i \in DOMAIN parentChain :
                     isCandidateValid(parentChain[i], existingBodyIds, barycenterBodyIds)}
    IN  IF valid = {} \/ 1 \in valid THEN 1
        ELSE CHOOSE i \in valid : \A j \in valid : i <= j

MismatchDiag(bodyId, selected, original) ==
    [kind |-> "parents-order mismatch", bodyId |-> bodyId,
     selected |-> selected, original |-> original]

\* Returns the body with its parent fields set and the messages emitted.
applyDirectParentFromChain(parentChain, existingBodyIds, barycenterBodyIds, body) ==
    IF parentChain = <<>> THEN [body |-> body, diagnostics |-> <<>>]
    ELSE LET selectedIndex == SelectedIndex(parentChain, existingBodyIds, barycenterBodyIds)
             selectedParent == parentChain[selectedIndex]
         IN  [body |-> [body EXCEPT !.parentId = selectedParent.bodyId,
                                    !.parentRelationType = selectedParent.type,
                                    !.orbitsBarycenter = isBarycenterRef(selectedParent.type)],
              diagnostics |-> IF selectedIndex > 1
                              THEN <<MismatchDiag(body.id, selectedParent, parentChain[1])>>
                              ELSE <<>>]

isParentReferenceValid(parentId, existingBodyIds) ==
    parentId = kExternalVirtualBarycenterMarkerId \/ parentId \in existingBodyIds

\* found = the function's return value; parentId/type = what it wrote.
resolveFallbackParent(bodyObj, existingBodyIds) ==
    IF /\ bodyObj.parentPlanetId >= 0
       /\ isParentReferenceValid(bodyObj.parentPlanetId, existingBodyIds)
    THEN [found |-> TRUE, parentId |-> bodyObj.parentPlanetId, type |-> "Planet"]
    ELSE IF /\ bodyObj.parentStarId >= 0
            /\ isParentReferenceValid(bodyObj.parentStarId, existingBodyIds)
    THEN [found |-> TRUE, parentId |-> bodyObj.parentStarId, type |-> "Star"]
    ELSE IF /\ bodyObj.parent # Absent
            /\ bodyObj.parent.bodyId >= 0
            /\ isParentReferenceValid(bodyObj.parent.bodyId, existingBodyIds)
    THEN [found |-> TRUE, parentId |-> bodyObj.parent.bodyId, type |-> bodyObj.parent.type]
    ELSE [found |-> FALSE, parentId |-> -1, type |-> ""]
(***************************************************************************)
(* parseEdastroBodiesFromObject, first half: raw entries to bodies         *)
(***************************************************************************)
\* A JSON object as the parser sees it: whether it has a `name` member, the
\* entries of its collection arrays (each tagged with the key of its array),
\* its `data` and `result` members and its `systems` array.
JsonObject(hasName, entries, data, result, systems) ==
    [hasName |-> hasName, entries |-> entries, data |-> data,
     result |-> result, systems |-> systems]

edastroCollectionKeys ==
    <<"stars", "planets", "moons", "barycentres", "barycenters", "belts",
      "bodies", "systemBodies", "system_bodies", "body">>

RECURSIVE readArray(_, _)
\* The array member of the given key: the entries tagged with it, in order.
readArray(entries, key) ==
    IF entries = <<>> THEN <<>>
    ELSE (IF Head(entries).coll = key THEN <<Head(entries)>> ELSE <<>>)
            \o readArray(Tail(entries), key)

RECURSIVE appendBodies(_, _)
\* appendBodies over the collection keys from index k on.
appendBodies(entries, k) ==
    IF k > Len(edastroCollectionKeys) THEN <<>>
    ELSE readArray(entries, edastroCollectionKeys[k]) \o appendBodies(entries, k + 1)

\* rawBodies: the collections of the object, else those of its `data` member.
RawBodies(rootObject) ==
    LET direct == appendBodies(rootObject.entries, 1)
    IN  IF direct # <<>> THEN direct
        ELSE IF rootObject.data # Absent THEN appendBodies(rootObject.data.entries, 1)
        ELSE <<>>

classifyEdastroBodyClass(collectionKey, bodyObj, bodyType) ==
    IF ContainsInsensitive(collectionKey, "star") THEN "Star"
    ELSE IF ContainsInsensitive(collectionKey, "planet") THEN "Planet"
    ELSE IF ContainsInsensitive(collectionKey, "moon") THEN "Moon"
    ELSE IF ContainsInsensitive(collectionKey, "bary") THEN "Barycenter"
    ELSE IF classifyBodyClassFromType(bodyType) # "Unknown"
         THEN classifyBodyClassFromType(bodyType)
    ELSE IF bodyObj.parentPlanetId > 0 THEN "Moon"
    ELSE "Unknown"

\* First pass over rawBodies.
ExistingBodyIds(rawBodies) == {rawBodies[i].id : i \in DOMAIN rawBodies} \cap Nat

BarycenterBodyIds(rawBodies) ==
    {rawBodies[i].id : i \in {j \in DOMAIN rawBodies :
        /\ rawBodies[j].id >= 0
        /\ classifyEdastroBodyClass(rawBodies[j].coll, rawBodies[j], rawBodies[j].type)
              = "Barycenter"}}

InconsistentDiag(bodyId, parsedParentId) ==
    [kind |-> "inconsistent parent", bodyId |-> bodyId, parent |-> parsedParentId]

\* The body as the second pass has it before looking at the parents.
FreshBody(bodyObj, bodyClass) ==
    [CelestialBody EXCEPT !.id = bodyObj.id, !.name = bodyObj.name,
                          !.type = bodyObj.type, !.bodyClass = bodyClass,
                          !.orbitsBarycenter = (bodyClass = "Barycenter")]

HasInvalidParentRef(parsed, existingBodyIds) ==
    /\ parsed.parentId >= 0
    /\ ~isParentReferenceValid(parsed.parentId, existingBodyIds)

\* The alternate parent fields, consulted when the chain gave no valid parent.
ApplyFallback(parsed, fallback, hasInvalidParentRef) ==
    IF parsed.parentId < 0 \/ hasInvalidParentRef
    THEN IF fallback.found
         THEN [parsed EXCEPT !.parentId = fallback.parentId,
                             !.parentRelationType = fallback.type,
                             !.orbitsBarycenter = isBarycenterRef(fallback.type)]
         ELSE IF hasInvalidParentRef
              THEN [parsed EXCEPT !.parentId = -1, !.parentRelationType = "",
                                  !.orbitsBarycenter = FALSE]
              ELSE parsed
    ELSE parsed

\* A body of unknown class takes its class from its parent relation.
ClassFromRelation(body) ==
    IF body.bodyClass # "Unknown" THEN body
    ELSE IF ContainsInsensitive(body.parentRelationType, "planet")
    THEN [body EXCEPT !.bodyClass = "Moon"]
    ELSE IF ContainsInsensitive(body.parentRelationType, "star")
    THEN [body EXCEPT !.bodyClass = "Planet"]
    ELSE body

\* The rest of the loop body once the chain was applied.
ResolveParsedBody(direct, bodyObj, existingBodyIds) ==
    [body |-> ClassFromRelation(
                  ApplyFallback(direct.body,
                                resolveFallbackParent(bodyObj, existingBodyIds),
                                HasInvalidParentRef(direct.body, existingBodyIds))),
     diagnostics |-> direct.diagnostics \o
         (IF HasInvalidParentRef(direct.body, existingBodyIds)
          THEN <<InconsistentDiag(bodyObj.id, direct.body.parentId)>> ELSE <<>>)]

\* Second pass, one raw entry: the body pushed to the list and its messages.
ParseEdastroBody(bodyObj, existingBodyIds, barycenterBodyIds) ==
    ResolveParsedBody(
        applyDirectParentFromChain(
            ParentChainOf(bodyObj), existingBodyIds, barycenterBodyIds,
            FreshBody(bodyObj, classifyEdastroBodyClass(bodyObj.coll, bodyObj, bodyObj.type))),
        bodyObj, existingBodyIds)

RECURSIVE Flatten(_)
Flatten(seqs) == IF seqs = <<>> THEN <<>> ELSE Head(seqs) \o Flatten(Tail(seqs))

\* The two passes over rawBodies: the list, the chain kept for each id >= 0
\* (QHash::insert: the last entry of an id wins) and the messages.
ParseRawBodies(rawBodies) ==
    LET existingBodyIds == ExistingBodyIds(rawBodies)
        barycenterBodyIds == BarycenterBodyIds(rawBodies)
        parsed == [i \in DOMAIN rawBodies |->
                      ParseEdastroBody(rawBodies[i], existingBodyIds, barycenterBodyIds)]
        lastOf(id) == CHOOSE i \in DOMAIN rawBodies :
                         /\ rawBodies[i].id = id
                         /\ \A j \in DOMAIN rawBodies : rawBodies[j].id = id => j <= i
    IN  [bodies |-> [i \in DOMAIN rawBodies |-> parsed[i].body],
         parentsByBodyId |-> [id \in existingBodyIds |-> ParentChainOf(rawBodies[lastOf(id)])],
         diagnostics |-> Flatten([i \in DOMAIN rawBodies |-> parsed[i].diagnostics])]

\* QHash::value(id): the chain stored for the id, else an empty one.
ChainOf(chains, id) == IF id \in DOMAIN chains THEN chains[id] ELSE <<>>

(***************************************************************************)
(* synthesizeMissingBarycenters                                            *)
(***************************************************************************)
\* A mutant of MissingBarycenterIds: a link of any relation counts.
MissingBarycenterIdsOfAnyRelation(list, chains) ==
    LET existingBodyIds == KnownIds(list)
    IN  {ref.bodyId : ref \in {r \in UNION {SeqToSet(chains[id]) : id \in DOMAIN chains} :
            /\ r.bodyId # kVirtualBarycenterRootId
            /\ r.bodyId >= 0
            /\ r.bodyId \notin existingBodyIds}}

MissingBarycenterIds(list, chains) ==
    LET existingBodyIds == KnownIds(list)
    IN  {ref.bodyId : ref \in {r \in UNION {SeqToSet(chains[id]) : id \in DOMAIN chains} :
            /\ ContainsInsensitive(r.type, "null")
            /\ r.bodyId # kVirtualBarycenterRootId
            /\ r.bodyId >= 0
            /\ r.bodyId \notin existingBodyIds}}

BarycenterName(id) == "Barycenter " \o ToString(id)

SyntheticBarycenter(id) ==
    [CelestialBody EXCEPT !.id = id, !.name = BarycenterName(id), !.type = "Barycenter",
                          !.bodyClass = "Barycenter", !.parentRelationType = "Unknown"]

\* The orders in which a QSet<int> holding the ids of S may be iterated.
IterationOrders(S) ==
    {order \in SeqsUpTo(S, Cardinality(S)) :
        Len(order) = Cardinality(S) /\ SeqToSet(order) = S}

\* The list after the placeholders were pushed in the given order.
synthesizeMissingBarycenters(list, order) ==
    list \o [k \in DOMAIN order |-> SyntheticBarycenter(order[k])]
(***************************************************************************)
(* buildBarycenterHierarchy                                                *)
(***************************************************************************)
\* The bodies whose chains are scanned for candidates.
IsCandidateSource(body) == body.bodyClass \in {"Star", "Planet", "Moon"}

\* A mutant of CandidateAt: the link before the barycenter's is recorded.
CandidateAtPreceding(chain, i) == IF i > 1 THEN chain[i - 1] ELSE VirtualRootRef

\* The link recorded as candidate for the barycenter named at chain[i].
CandidateAt(chain, i) == IF i + 1 <= Len(chain) THEN chain[i + 1] ELSE VirtualRootRef

\* Every insert into barycenterCandidates, with its position in the two loops.
CandidateInserts(list, chains) ==
    {[at |-> <<b, i>>, barycenter |-> ChainOf(chains, list[b].id)[i].bodyId,
      candidate |-> CandidateAt(ChainOf(chains, list[b].id), i)] :
        <<b, i>> \in {<<c, j>> \in (DOMAIN list) \X (1 .. MaxChain + 1) :
            /\ IsCandidateSource(list[c])
            /\ j \in DOMAIN ChainOf(chains, list[c].id)
            /\ ContainsInsensitive(ChainOf(chains, list[c].id)[j].type, "null")
            /\ ~isVirtualRootRef(ChainOf(chains, list[c].id)[j])}}

Before(p, q) == p[1] < q[1] \/ (p[1] = q[1] /\ p[2] < q[2])

\* barycenterCandidates.value(id): one ParentRef per key, the one inserted last.
CandidatesOf(list, chains, id) ==
    LET inserts == {ins \in CandidateInserts(list, chains) : ins.barycenter = id}
    IN  {ins.candidate : ins \in {x \in inserts :
            \A y \in inserts :
                parentRefKey(y.candidate) = parentRefKey(x.candidate)
                    => (y.at = x.at \/ Before(y.at, x.at))}}

\* A mutant of ResolvedBarycenter: on a conflict one of the candidates is picked.
ResolvedBarycenterPickingOne(body, candidates) ==
    IF candidates = {}
    THEN [body EXCEPT !.parentId = -1, !.parentRelationType = "Unknown",
                      !.orbitsBarycenter = FALSE]
    ELSE LET parent == CHOOSE c \in candidates : TRUE
         IN  [body EXCEPT !.parentId = parent.bodyId,
                          !.parentRelationType = parent.type,
                          !.orbitsBarycenter = isBarycenterRef(parent.type)]

\* What the second loop writes to a Barycenter-class body.
ResolvedBarycenter(body, candidates) ==
    IF candidates = {}
    THEN [body EXCEPT !.parentId = -1, !.parentRelationType = "Unknown",
                      !.orbitsBarycenter = FALSE]
    ELSE IF Cardinality(candidates) > 1
    THEN [body EXCEPT !.parentId = -1, !.parentRelationType = "Conflict",
                      !.orbitsBarycenter = FALSE]
    ELSE LET parent == CHOOSE c \in candidates : TRUE
         IN  [body EXCEPT !.parentId = parent.bodyId,
                          !.parentRelationType = parent.type,
                          !.orbitsBarycenter = isBarycenterRef(parent.type)]

ConflictDiag(bodyId, candidates) ==
    [kind |-> "barycenter conflict", bodyId |-> bodyId, candidates |-> candidates]

buildBarycenterHierarchy(list, chains) ==
    LET conflicting == {i \in DOMAIN list :
                           /\ list[i].bodyClass = "Barycenter"
                           /\ Cardinality(CandidatesOf(list, chains, list[i].id)) > 1}
        ids == IdsAt(list, conflicting, 1)
    IN  [bodies |-> [i \in DOMAIN list |->
                        IF list[i].bodyClass = "Barycenter"
                        THEN ResolvedBarycenter(list[i], CandidatesOf(list, chains, list[i].id))
                        ELSE list[i]],
         diagnostics |-> [k \in DOMAIN ids |->
                            ConflictDiag(ids[k], CandidatesOf(list, chains, ids[k]))]]

(***************************************************************************)
(* validateEdastroParentChains: messages only                              *)
(***************************************************************************)
HierarchyDiagnostic(level, bodyId, reason) ==
    [kind |-> "hierarchy", level |-> level, bodyId |-> bodyId, reason |-> reason]

\* finalChainByBodyId: the stored chain, or the body's own parent as a chain.
FinalChains(list, chains) ==
    LET byId == BodyById(list)
    IN  [id \in DOMAIN byId |->
            IF ChainOf(chains, id) = <<>> /\ byId[id].parentId >= 0
            THEN <<ParentRef(byId[id].parentRelationType, byId[id].parentId)>>
            ELSE ChainOf(chains, id)]

IsTrackedType(type) ==
    \/ ContainsInsensitive(type, "null")
    \/ ContainsInsensitive(type, "star")
    \/ ContainsInsensitive(type, "planet")

HasRepeatedRef(chain) ==
    \E i, j \in DOMAIN chain :
        /\ i < j
        /\ IsTrackedType(chain[i].type) /\ IsTrackedType(chain[j].type)
        /\ parentRefKey(chain[i]) = parentRefKey(chain[j])

HasMissingBarycenter(chain, barycenterIds) ==
    \E i \in DOMAIN chain :
        /\ ContainsInsensitive(chain[i].type, "null")
        /\ ~isVirtualRootRef(chain[i])
        /\ chain[i].bodyId \notin barycenterIds

\* parentVariants[id]: the keys of the links that follow Null:<id> in a chain.
ParentVariants(finalChains, id) ==
    {parentRefKey(CandidateAt(finalChains[b], i)) :
        <<b, i>> \in {<<c, j>> \in (DOMAIN finalChains) \X (1 .. MaxChain + 1) :
            /\ j \in DOMAIN finalChains[c]
            /\ ContainsInsensitive(finalChains[c][j].type, "null")
            /\ ~isVirtualRootRef(finalChains[c][j])
            /\ finalChains[c][j].bodyId = id}}

\* The three passes iterate hashes, so the messages come in no fixed order:
\* the result is the bag of them.
validateEdastroParentChains(list, chains) ==
    LET barycenterIds == {list[i].id : i \in {j \in DOMAIN list :
                             list[j].bodyClass = "Barycenter" /\ list[j].id >= 0}}
        finalChains == FinalChains(list, chains)
        named == {finalChains[b][i].bodyId :
                     <<b, i>> \in {<<c, j>> \in (DOMAIN finalChains) \X (1 .. MaxChain + 1) :
                        /\ j \in DOMAIN finalChains[c]
                        /\ ContainsInsensitive(finalChains[c][j].type, "null")
                        /\ ~isVirtualRootRef(finalChains[c][j])}}
    IN  SetToBag({HierarchyDiagnostic("ERROR", id, "cycle") :
                     id \in {b \in DOMAIN finalChains : HasRepeatedRef(finalChains[b])}})
        (+) SetToBag({HierarchyDiagnostic("ERROR", id, "missing barycenter") :
                     id \in {b \in DOMAIN finalChains :
                                HasMissingBarycenter(finalChains[b], barycenterIds)}})
        (+) SetToBag({HierarchyDiagnostic("WARNING", id, "multiple parents") :
                     id \in {b \in named : Cardinality(ParentVariants(finalChains, b)) > 1}})
(***************************************************************************)
(* parseEdastroBodiesFromObject as a whole, and parseEdastroBodies         *)
(***************************************************************************)
\* The builder on one object, the synthesized placeholders pushed in the
\* given order: the returned list and the bag of messages.
parseEdastroBodiesFromObject(rootObject, order) ==
    LET parsed == ParseRawBodies(RawBodies(rootObject))
        synthesized == synthesizeMissingBarycenters(parsed.bodies, order)
        linked == buildBarycenterHierarchy(synthesized, parsed.parentsByBodyId)
        prepared == prepareBodiesForGraph(linked.bodies)
    IN  [bodies |-> prepared.bodies,
         diagnostics |-> SeqToBag(parsed.diagnostics) (+) SeqToBag(linked.diagnostics)
                         (+) validateEdastroParentChains(linked.bodies, parsed.parentsByBodyId)
                         (+) SeqToBag(prepared.diagnostics)]

\* A body entry looked at as if it were a system object: it has a name and
\* no collections of its own.
EntryObject(entry) == JsonObject(TRUE, <<>>, Absent, Absent, <<>>)

\* The keys of a QJsonObject come in sorted order.
jsonKeyOrder ==
    <<"barycenters", "barycentres", "belts", "bodies", "body", "moons", "planets",
      "stars", "systemBodies", "system_bodies", "systems">>

RECURSIVE FirstObjects(_, _)
\* The first element of every non-empty array member, keys from index k on.
FirstObjects(rootObject, k) ==
    IF k > Len(jsonKeyOrder) THEN <<>>
    ELSE LET key == jsonKeyOrder[k]
             array == readArray(rootObject.entries, key)
             members == IF key = "systems" THEN rootObject.systems
                        ELSE [i \in DOMAIN array |-> EntryObject(array[i])]
         IN  (IF members # <<>> THEN <<members[1]>> ELSE <<>>)
                \o FirstObjects(rootObject, k + 1)

HasSystemMember(rootObject) ==
    \/ rootObject.hasName
    \/ \E i \in DOMAIN rootObject.entries :
          rootObject.entries[i].coll \in {"bodies", "systemBodies"}

\* The objects parseEdastroBodies hands to the builder, in order, until one
\* of them yields a non-empty list.
SystemObjectsToTry(document) ==
    IF document.root = "object"
    THEN (IF HasSystemMember(document.object) THEN <<document.object>> ELSE <<>>)
            \o FirstObjects(document.object, 1)
    ELSE IF document.root = "array" /\ document.items # <<>>
    THEN <<document.items[1]>>
    ELSE <<>>

(***************************************************************************)
(* Provider documents                                                      *)
(***************************************************************************)
EntryIds == {0, 1, 2}

BodyName(id) == "Body " \o ToString(id)

\* The collection a raw entry sits in and the type text it carries.
EntryKinds ==
    {[coll |-> "stars", type |-> "Star"],
     [coll |-> "planets", type |-> "Planet"],
     [coll |-> "barycentres", type |-> "Barycentre"]}

KindsOf(id) ==
    IF id = 2 THEN {k \in EntryKinds : k.coll \in {"stars", "planets"}}
    ELSE {k \in EntryKinds : k.coll \in {"stars", "barycentres"}}

\* Ancestor chains as providers write them, nearest ancestor first; id 3 is
\* never the id of an entry.
FullChains ==
    {<<ParentRef("Null", 1), ParentRef("Null", 2), ParentRef("Star", 0)>>,
     <<ParentRef("Null", 2), ParentRef("Null", 1), ParentRef("Star", 0)>>,
     <<ParentRef("Star", 0), ParentRef("Null", 1), ParentRef("Null", 0)>>,
     <<ParentRef("Null", 3), ParentRef("Star", 0), ParentRef("Null", 0)>>,
     <<ParentRef("Null", 0), ParentRef("Star", 2), ParentRef("Null", 1)>>,
     <<ParentRef("Star", 2), ParentRef("Null", 0), ParentRef("Null", 1)>>}

\* The chains of the entries: the first links of a full chain.
ParentChains ==
    UNION {{SubSeq(c, 1, n) : n \in 0 .. (IF MaxChain < Len(c) THEN MaxChain ELSE Len(c))} :
              c \in FullChains}

RawEntry(kind, id, form, chain) ==
    [coll |-> kind.coll, id |-> id, name |-> BodyName(id), type |-> kind.type,
     parentsForm |-> form, parents |-> chain,
     parentPlanetId |-> -1, parentStarId |-> -1, parent |-> Absent]

RECURSIVE EntryListsFrom(_, _, _)
\* The entry lists with ids >= id in increasing order, at most n entries, the
\* entries of an id drawn from perId[id].
EntryListsFrom(perId, id, n) ==
    IF id \notin DOMAIN perId \/ n = 0 THEN {<<>>}
    ELSE EntryListsFrom(perId, id + 1, n)
         \cup {<<e>> \o rest : e \in perId[id], rest \in EntryListsFrom(perId, id + 1, n - 1)}

\* The chains an entry of the given id may carry: the entry with the highest
\* id names at most its nearest ancestor.
ChainsFor(id, chains) == IF id = 2 THEN {c \in chains : Len(c) <= 1} ELSE chains

EdastroEntries(chains) ==
    [id \in EntryIds |->
        {RawEntry(k, id, "string", c) : k \in KindsOf(id), c \in ChainsFor(id, chains)}]

\* {"name": ..., "stars": [...], "planets": [...], "barycentres": [...]}
NamedSystemObject(entries) == JsonObject(TRUE, entries, Absent, Absent, <<>>)

\* A document: its root kind, the root object or the items of the root array.
ObjectDocument(object) == [root |-> "object", object |-> object, items |-> <<>>]
ArrayDocument(items) == [root |-> "array", object |-> Absent, items |-> items]
ScalarDocument == [root |-> "scalar", object |-> Absent, items |-> <<>>]

\* The layouts in which a document may carry the collections of one system.
Layouts(entries) ==
    {ObjectDocument(JsonObject(named, entries, Absent, Absent, <<>>)) : named \in BOOLEAN}
    \cup {ObjectDocument(JsonObject(named, <<>>, NamedSystemObject(entries), Absent, <<>>)) :
            named \in BOOLEAN}
    \cup {ObjectDocument(JsonObject(named, <<>>, Absent, NamedSystemObject(entries), <<>>)) :
            named \in BOOLEAN}
    \cup {ObjectDocument(JsonObject(named, <<>>, Absent, Absent,
                                    <<NamedSystemObject(entries)>>)) : named \in BOOLEAN}
    \cup {ArrayDocument(<<NamedSystemObject(entries)>>), ArrayDocument(<<>>)}

Replies == {"ok", "timedOut", "notFound", "networkError"}
(***************************************************************************)
(* requestEdastroSystemBodies: the reply handler, one step per stage       *)
(***************************************************************************)
NoSignal == [name |-> "none"]
requestFailed(reason) == [name |-> "requestFailed", reason |-> reason]
systemBodiesReady(list) == [name |-> "systemBodiesReady", bodies |-> list]

IdleSteps ==
    /\ sysObj = Absent
    /\ pending = <<>>
    /\ bodies = <<>>
    /\ parentsByBodyId = <<>>
    /\ diagnostics = EmptyBag
    /\ hierarchyValid = None
    /\ signal = NoSignal
    /\ IdleWalk
    /\ IdleAux

\* A reply has arrived: a failure, or a document of the given family.
ReplyArrived(documents) ==
    /\ pc = "reply"
    /\ reply \in Replies
    /\ doc \in (IF reply = "ok" THEN documents \cup {ScalarDocument} ELSE {NoDocument})
    /\ IdleSteps

\* The early returns of the handler: timeout, 404/422, network error, a
\* payload that is neither an object nor an array.
EdastroReplyRejected ==
    /\ pc = "reply"
    /\ provider = "EDASTRO"
    /\ reply # "ok" \/ doc.root = "scalar"
    /\ signal' = requestFailed(IF reply = "timedOut" THEN "timeout"
                               ELSE IF reply = "notFound" THEN "not found"
                               ELSE IF reply = "networkError" THEN "network error"
                               ELSE "bad format")
    /\ pc' = "done"
    /\ UNCHANGED <<provider, reply, doc, sysObj, pending, bodies, parentsByBodyId,
                   diagnostics, hierarchyValid, walkVars, auxVars>>

\* parseEdastroBodies picks the first object to hand to the builder, or
\* returns {} when the document offers none.
BeginParseEdastro ==
    /\ pc = "reply"
    /\ provider = "EDASTRO"
    /\ reply = "ok" /\ doc.root # "scalar"
    /\ LET objects == SystemObjectsToTry(doc)
       IN  IF objects = <<>>
           THEN /\ bodies' = <<>>
                /\ pc' = "built"
                /\ UNCHANGED <<sysObj, pending>>
           ELSE /\ sysObj' = Head(objects)
                /\ pending' = Tail(objects)
                /\ pc' = "object"
                /\ UNCHANGED bodies
    /\ UNCHANGED <<provider, reply, doc, parentsByBodyId, diagnostics, hierarchyValid,
                   signal, walkVars, auxVars>>

\* parseEdastroBodiesFromObject up to the end of its second loop.
ReadRawBodies ==
    /\ pc = "object"
    /\ provider = "EDASTRO"
    /\ LET parsed == ParseRawBodies(RawBodies(sysObj))
       IN  /\ bodies' = parsed.bodies
           /\ parentsByBodyId' = parsed.parentsByBodyId
           /\ diagnostics' = diagnostics (+) SeqToBag(parsed.diagnostics)
    /\ pc' = "parsed"
    /\ UNCHANGED <<provider, reply, doc, sysObj, pending, hierarchyValid, signal, walkVars,
                   auxVars>>

SynthesizeMissingBarycenters ==
    /\ pc = "parsed"
    /\ provider = "EDASTRO"
    /\ \E order \in IterationOrders(MissingBarycenterIds(bodies, parentsByBodyId)) :
          bodies' = synthesizeMissingBarycenters(bodies, order)
    /\ pc' = "synthesized"
    /\ UNCHANGED <<provider, reply, doc, sysObj, pending, parentsByBodyId, diagnostics,
                   hierarchyValid, signal, walkVars, auxVars>>

BuildBarycenterHierarchy ==
    /\ pc = "synthesized"
    /\ provider = "EDASTRO"
    /\ LET linked == buildBarycenterHierarchy(bodies, parentsByBodyId)
       IN  /\ bodies' = linked.bodies
           /\ diagnostics' = diagnostics (+) SeqToBag(linked.diagnostics)
    /\ pc' = "linked"
    /\ UNCHANGED <<provider, reply, doc, sysObj, pending, parentsByBodyId, hierarchyValid,
                   signal, walkVars, auxVars>>

\* validateEdastroParentChains and prepareBodiesForGraph end the builder;
\* parseEdastroBodies returns its list unless it is empty and another object
\* is left to try.
CloseEdastroGraph ==
    /\ pc = "linked"
    /\ provider = "EDASTRO"
    /\ LET prepared == prepareBodiesForGraph(bodies)
       IN  /\ diagnostics' = diagnostics
                               (+) validateEdastroParentChains(bodies, parentsByBodyId)
                               (+) SeqToBag(prepared.diagnostics)
           /\ IF prepared.bodies # <<>> \/ pending = <<>>
              THEN /\ bodies' = prepared.bodies
                   /\ pc' = "built"
                   /\ UNCHANGED <<sysObj, pending, parentsByBodyId>>
              ELSE /\ bodies' = <<>>
                   /\ parentsByBodyId' = <<>>
                   /\ sysObj' = Head(pending)
                   /\ pending' = Tail(pending)
                   /\ pc' = "object"
    /\ UNCHANGED <<provider, reply, doc, hierarchyValid, signal, walkVars, auxVars>>

\* A mutant of TerminalSignal: an invalid hierarchy is delivered all the same.
TerminalSignalIgnoringValidity(list, valid, emptyReason) ==
    IF list = <<>> THEN requestFailed(emptyReason) ELSE systemBodiesReady(list)

\* The tail shared by the handlers: empty list, invalid hierarchy, or result.
TerminalSignal(list, valid, emptyReason) ==
    IF list = <<>> THEN requestFailed(emptyReason)
    ELSE IF ~valid THEN requestFailed("invalid hierarchy")
    ELSE systemBodiesReady(list)

\* Back in the handler: prepareBodiesForGraph on the returned list, then the
\* terminal signal.
FinishEdastroRequest ==
    /\ pc = "built"
    /\ provider = "EDASTRO"
    /\ LET prepared == prepareBodiesForGraph(bodies)
       IN  /\ bodies' = prepared.bodies
           /\ hierarchyValid' = prepared.valid
           /\ diagnostics' = diagnostics (+) SeqToBag(prepared.diagnostics)
           /\ signal' = TerminalSignal(prepared.bodies, prepared.valid, "empty body list")
    /\ pc' = "done"
    /\ UNCHANGED <<provider, reply, doc, sysObj, pending, parentsByBodyId, walkVars, auxVars>>

Next ==
    \/ EdastroReplyRejected
    \/ BeginParseEdastro
    \/ ReadRawBodies
    \/ SynthesizeMissingBarycenters
    \/ BuildBarycenterHierarchy
    \/ CloseEdastroGraph
    \/ FinishEdastroRequest

\* EDAstro documents in the layout of a named system object.
Init ==
    /\ provider = "EDASTRO"
    /\ ReplyArrived({ObjectDocument(NamedSystemObject(entries)) :
                        entries \in EntryListsFrom(EdastroEntries(ParentChains), 0, MaxEntries)})

Spec == Init /\ [][Next]_vars
(***************************************************************************)
(* requestSystemBodies in EdsmOnly mode: parseEdsmBodies, finalizeRequest  *)
(***************************************************************************)
\* parseParentFromArray: the first item with a usable id becomes the parent,
\* unchecked against the other bodies.
parseParentFromArray(bodyObj, body) ==
    LET usable == IF bodyObj.parentsForm = "array"
                  THEN parseParentChainFromArray(bodyObj.parents) ELSE <<>>
    IN  IF usable = <<>> THEN body
        ELSE [body EXCEPT !.parentId = usable[1].bodyId,
                          !.parentRelationType = usable[1].type,
                          !.orbitsBarycenter = isBarycenterRef(usable[1].type)]

ParseEdsmBody(bodyObj) ==
    parseParentFromArray(bodyObj,
        [CelestialBody EXCEPT !.id = bodyObj.id, !.name = bodyObj.name,
                              !.type = bodyObj.type,
                              !.bodyClass = classifyBodyClassFromType(bodyObj.type)])

\* The loop of parseEdsmBodies over the `bodies` array.
ReadEdsmArray(rootObject) ==
    LET bodiesArray == readArray(rootObject.entries, "bodies")
    IN  [i \in DOMAIN bodiesArray |-> ParseEdsmBody(bodiesArray[i])]

EdsmEntries(chains) ==
    [id \in EntryIds |->
        {RawEntry([coll |-> "bodies", type |-> k.type], id, "array", c) :
            k \in KindsOf(id), c \in ChainsFor(id, chains)}]

\* The early returns of the EDSM finished handler; each sets edsmError and
\* calls finalizeRequest, which finds no bodies.
EdsmReplyRejected ==
    /\ pc = "reply"
    /\ provider = "EDSM"
    /\ IF reply = "ok" THEN doc.root # "object" ELSE TRUE
    /\ hierarchyValid' = FALSE
    /\ signal' = TerminalSignal(<<>>, FALSE,
                                IF reply = "timedOut" THEN "EDSM: timeout"
                                ELSE IF reply = "ok" THEN "EDSM: bad format"
                                ELSE "EDSM: network error")
    /\ pc' = "done"
    /\ UNCHANGED <<provider, reply, doc, sysObj, pending, bodies, parentsByBodyId,
                   diagnostics, walkVars, auxVars>>

ReadEdsmBodies ==
    /\ pc = "reply"
    /\ provider = "EDSM"
    /\ reply = "ok"
    /\ doc.root = "object"
    /\ sysObj' = doc.object
    /\ bodies' = ReadEdsmArray(doc.object)
    /\ pc' = "parsed"
    /\ UNCHANGED <<provider, reply, doc, pending, parentsByBodyId, diagnostics,
                   hierarchyValid, signal, walkVars, auxVars>>

\* parseEdsmBodies ends with prepareBodiesForGraph; its messages go to an
\* empty callback.
CloseEdsmGraph ==
    /\ pc = "parsed"
    /\ provider = "EDSM"
    /\ bodies' = prepareBodiesForGraph(bodies).bodies
    /\ pc' = "built"
    /\ UNCHANGED <<provider, reply, doc, sysObj, pending, parentsByBodyId, diagnostics,
                   hierarchyValid, signal, walkVars, auxVars>>

\* finalizeRequest with edsmParsed set.
FinalizeEdsmRequest ==
    /\ pc = "built"
    /\ provider = "EDSM"
    /\ IF bodies = <<>>
       THEN /\ hierarchyValid' = FALSE
            /\ signal' = TerminalSignal(bodies, FALSE, "no bodies")
            /\ UNCHANGED <<bodies, diagnostics>>
       ELSE LET prepared == prepareBodiesForGraph(bodies)
            IN  /\ bodies' = prepared.bodies
                /\ hierarchyValid' = prepared.valid
                /\ diagnostics' = diagnostics (+) SeqToBag(prepared.diagnostics)
                /\ signal' = TerminalSignal(prepared.bodies, prepared.valid, "no bodies")
    /\ pc' = "done"
    /\ UNCHANGED <<provider, reply, doc, sysObj, pending, parentsByBodyId, walkVars, auxVars>>

NextEdsm ==
    \/ EdsmReplyRejected
    \/ ReadEdsmBodies
    \/ CloseEdsmGraph
    \/ FinalizeEdsmRequest

InitEdsm ==
    /\ provider = "EDSM"
    /\ ReplyArrived({ObjectDocument(NamedSystemObject(entries)) :
                        entries \in EntryListsFrom(EdsmEntries(ParentChains), 0, MaxEntries)})

SpecEdsm == InitEdsm /\ [][NextEdsm]_vars

(***************************************************************************)
(* EDAstro documents in every layout, and the binary-star family           *)
(***************************************************************************)
\* Entries with at most one parent link, to keep the layouts apart.
ShortChains == {c \in ParentChains : Len(c) <= 1}

InitLayouts ==
    /\ provider = "EDASTRO"
    /\ ReplyArrived(UNION {Layouts(entries) :
                        entries \in EntryListsFrom(EdastroEntries(ShortChains), 0, MaxEntries)})

SpecLayouts == InitLayouts /\ [][Next]_vars

StarEntry(id, chain) == RawEntry([coll |-> "stars", type |-> "Star"], id, "string", chain)

\* A primary star S, two companion stars that both carry Null:X;Star:S, and
\* no entry with id X.
CompanionEntries ==
    {<<StarEntry(s, own),
       StarEntry(a, <<ParentRef("Null", x), ParentRef("Star", s)>>),
       StarEntry(b, <<ParentRef("Null", x), ParentRef("Star", s)>>)>> :
        <<s, a, b, x, own>> \in
            {t \in (0 .. 3) \X (0 .. 3) \X (0 .. 3) \X (0 .. 3) \X ParentChains :
                /\ t[2] < t[3]
                /\ Cardinality({t[1], t[2], t[3], t[4]}) = 4}}

InitCompanions ==
    /\ provider = "EDASTRO"
    /\ ReplyArrived({ObjectDocument(NamedSystemObject(entries)) : entries \in CompanionEntries})

SpecCompanions == InitCompanions /\ [][Next]_vars

\* A request to either provider.
NextProviders == Next \/ NextEdsm

InitProviders == Init \/ InitEdsm

SpecProviders == InitProviders /\ [][NextProviders]_vars

(***************************************************************************)
(* SystemModelBuilder::buildBodyMap                                        *)
(***************************************************************************)
SelfParentWarning(bodyId) == [kind |-> "self-parent", bodyId |-> bodyId]
DuplicateWarning(bodyId, existing, incoming) ==
    [kind |-> "duplicate id", bodyId |-> bodyId, existing |-> existing,
     incoming |-> incoming]

\* A mutant of NormalizedBody: a self-parent reference is kept.
NormalizedBodyKeepingSelfParent(body) == body

\* A mutant of NormalizedBody: the body with the virtual-root id is rerouted
\* like any other.
NormalizedBodyReroutingAll(body) ==
    IF body.parentId # body.id THEN body
    ELSE [body EXCEPT !.parentId = kExternalVirtualBarycenterMarkerId,
                      !.orbitsBarycenter = TRUE, !.parentRelationType = "Null"]

\* normalizedBody: a body that names itself as parent is put under the
\* virtual root, the body with the virtual-root id is left without parent.
NormalizedBody(body) ==
    IF body.parentId # body.id THEN body
    ELSE IF body.id = kExternalVirtualBarycenterMarkerId
    THEN [body EXCEPT !.parentId = -1, !.orbitsBarycenter = FALSE,
                      !.parentRelationType = "Null"]
    ELSE [body EXCEPT !.parentId = kExternalVirtualBarycenterMarkerId,
                      !.orbitsBarycenter = TRUE, !.parentRelationType = "Null"]

\* The list index whose body map.insert leaves under the id after the first
\* loop: the last entry with that id.
LastIndexOf(list, id) ==
    CHOOSE i \in DOMAIN list :
        list[i].id = id /\ \A j \in DOMAIN list : list[j].id = id => j <= i

\* A mutant of InsertedIndex: the first entry of an id is the one kept.
FirstIndexOf(list, id) ==
    CHOOSE i \in DOMAIN list :
        list[i].id = id /\ \A j \in DOMAIN list : list[j].id = id => i <= j

\* The index of the entry map.insert leaves under the id.
InsertedIndex(list, id) == LastIndexOf(list, id)

\* The map after the first loop.
InsertedBodies(list) ==
    [id \in KnownIds(list) |-> NormalizedBody(list[InsertedIndex(list, id)])]

\* A mutant of IsChildLink: only the children of the virtual root are linked.
IsChildLinkToRootOnly(map, childId, parentId) ==
    map[childId].parentId = parentId /\ parentId = kExternalVirtualBarycenterMarkerId

\* The condition under which the second loop pushes childId to the
\* children of parentId.
IsChildLink(map, childId, parentId) ==
    /\ map[childId].parentId = parentId
    /\ map[childId].parentId # childId
    /\ parentId >= 0
    /\ parentId \in DOMAIN map

\* children of parentId after the second loop has visited the map in the
\* given order.
ChildrenOf(map, parentId, order) ==
    map[parentId].children
        \o SelectSeq(order, LAMBDA childId : IsChildLink(map, childId, parentId))

\* The entry the map holds under the id of list[i] when list[i] arrives.
ExistingIndex(list, i) ==
    CHOOSE j \in 1 .. (i - 1) :
        /\ list[j].id = list[i].id
        /\ \A k \in 1 .. (i - 1) : list[k].id = list[i].id => k <= j

\* The warnings one list entry causes in the first loop.
WarningsAt(list, i) ==
    IF list[i].id < 0 THEN <<>>
    ELSE (IF list[i].parentId = list[i].id
          THEN <<SelfParentWarning(list[i].id)>> ELSE <<>>)
         \o (IF \E j \in 1 .. (i - 1) : list[j].id = list[i].id
             THEN <<DuplicateWarning(list[i].id,
                                     NormalizedBody(list[ExistingIndex(list, i)]),
                                     NormalizedBody(list[i]))>>
             ELSE <<>>)

\* The warnings of the first loop, in list order.
BodyMapWarnings(list) == Flatten([i \in DOMAIN list |-> WarningsAt(list, i)])

\* buildBodyMap, the QHash visited in the given order by the second loop.
buildBodyMap(list, order) ==
    [id \in KnownIds(list) |->
        [InsertedBodies(list)[id] EXCEPT
            !.children = ChildrenOf(InsertedBodies(list), id, order)]]

\* The bodies of GraphBodies with the name and type texts of their class.
NamedGraphBodies ==
    {[b EXCEPT !.name = (IF b.bodyClass = "Star" THEN "A" ELSE "B"),
               !.type = b.bodyClass] : b \in GraphBodies}

\* Body lists as the builder may be handed them: bodies with and without
\* id, with absent, known, unknown and own id as parent, ids repeated.
InitBodyMap ==
    /\ pc = "bodies"
    /\ bodies \in SeqsUpTo(NamedGraphBodies, MaxBodies)
    /\ diagnostics = EmptyBag
    /\ hierarchyValid = None
    /\ IdlePipeline
    /\ IdleWalk
    /\ IdleAux

BuildBodyMap ==
    /\ pc = "bodies"
    /\ \E order \in IterationOrders(KnownIds(bodies)) :
          bodyMap' = buildBodyMap(bodies, order)
    /\ diagnostics' = diagnostics (+) SeqToBag(BodyMapWarnings(bodies))
    /\ pc' = "mapped"
    /\ UNCHANGED <<bodies, hierarchyValid, pipelineVars, walkVars, mergeVars, request,
                   emitted>>

NextBodyMap == BuildBodyMap

SpecBodyMap == InitBodyMap /\ [][NextBodyMap]_vars
(***************************************************************************)
(* A moon that alone names a barycentre                                    *)
(* (EdastroHierarchyTests::buildsBarycenterParentFromMoonOnlyChain)        *)
(***************************************************************************)
MoonIds == 1 .. 3

MoonChainOf(p, b) ==
    <<ParentRef("Planet", p), ParentRef("Null", b), ParentRef("Null", 0)>>

\* Star 0, a planet P, a moon M and a barycentre entry B, in the arrays
\* "stars", "planets", "moons" and "barycentres"/"barycenters"; the planet
\* names the star or nothing, the moon carries a prefix of
\* Planet:P;Null:B;Null:0.
MoonChainEntries ==
    {<<StarEntry(0, <<>>),
       RawEntry([coll |-> "planets", type |-> "Planet"], t[1], "string", t[5]),
       RawEntry([coll |-> "moons", type |-> "Moon"], t[2], "string",
                SubSeq(MoonChainOf(t[1], t[3]), 1, t[6])),
       RawEntry([coll |-> t[4], type |-> "Barycenter"], t[3], "string", <<>>)>> :
        t \in {u \in MoonIds \X MoonIds \X MoonIds \X {"barycentres", "barycenters"}
                       \X {<<>>, <<ParentRef("Star", 0)>>} \X (1 .. 3) :
                  Cardinality({u[1], u[2], u[3]}) = 3}}

InitMoonChain ==
    /\ provider = "EDASTRO"
    /\ ReplyArrived({ObjectDocument(NamedSystemObject(entries)) : entries \in MoonChainEntries})

SpecMoonChain == InitMoonChain /\ [][Next]_vars
(***************************************************************************)
(* mergeBodies                                                             *)
(***************************************************************************)
RECURSIVE InsertEdsm(_, _)
\* The first loop: every EDSM body with id >= 0 is inserted, a later one
\* replacing an earlier one of the same id.
InsertEdsm(mergedById, list) ==
    IF list = <<>> THEN mergedById
    ELSE InsertEdsm(IF Head(list).id >= 0
                    THEN (Head(list).id :> Head(list)) @@ mergedById
                    ELSE mergedById,
                    Tail(list))

\* The condition under which replacing `existing` by `body` counts as a conflict.
DiffersFrom(existing, body) ==
    \/ existing.name # "" /\ existing.name # body.name
    \/ existing.type # "" /\ existing.type # body.type

RECURSIVE InsertSpanshSparingParented(_, _)
\* A mutant of InsertSpansh: an entry that has a body as its parent is not
\* replaced.
InsertSpanshSparingParented(state, list) ==
    IF list = <<>> THEN state
    ELSE LET body == Head(list)
         IN  InsertSpanshSparingParented(
                 IF body.id < 0 THEN state
                 ELSE IF body.id \in DOMAIN state.mergedById
                         /\ state.mergedById[body.id].parentId > 0
                 THEN state
                 ELSE [mergedById |-> (body.id :> body) @@ state.mergedById,
                       hadConflict |-> state.hadConflict],
                 Tail(list))

RECURSIVE InsertSpansh(_, _)
\* The second loop over [mergedById, hadConflict]: a Spansh body with
\* id >= 0 replaces the entry of its id and is compared with it first.
InsertSpansh(state, list) ==
    IF list = <<>> THEN state
    ELSE LET body == Head(list)
         IN  InsertSpansh(
                 IF body.id < 0 THEN state
                 ELSE [mergedById |-> (body.id :> body) @@ state.mergedById,
                       hadConflict |->
                           \/ state.hadConflict
                           \/ /\ body.id \in DOMAIN state.mergedById
                              /\ DiffersFrom(state.mergedById[body.id], body)],
                 Tail(list))

syntheticParent(id) ==
    [CelestialBody EXCEPT !.id = id, !.name = BodyName(id), !.type = "Unknown"]

RECURSIVE InsertStubs(_, _)
\* The third loop, over the Spansh list: a stub for every parentId >= 0 that
\* has no entry yet.
InsertStubs(mergedById, list) ==
    IF list = <<>> THEN mergedById
    ELSE InsertStubs(IF Head(list).parentId >= 0 /\ Head(list).parentId \notin DOMAIN mergedById
                     THEN (Head(list).parentId :> syntheticParent(Head(list).parentId))
                              @@ mergedById
                     ELSE mergedById,
                     Tail(list))

\* mergeBodies with the hash iterated in the given order: the merged list
\* and *outHadConflict.
mergeBodies(edsm, spansh, order) ==
    LET second == InsertSpansh([mergedById |-> InsertEdsm(<<>>, edsm),
                                hadConflict |-> FALSE], spansh)
        third == InsertStubs(second.mergedById, spansh)
    IN  [merged |-> [k \in DOMAIN order |-> third[order[k]]],
         hadConflict |-> second.hadConflict]

MergedIds(edsm, spansh) ==
    DOMAIN InsertStubs(InsertSpansh([mergedById |-> InsertEdsm(<<>>, edsm),
                                     hadConflict |-> FALSE], spansh).mergedById,
                       spansh)

SourceBody(id, parentId, name, type) ==
    [CelestialBody EXCEPT !.id = id, !.parentId = parentId, !.name = name, !.type = type,
                          !.parentRelationType = IF parentId >= 0 THEN "Star" ELSE ""]

\* Bodies as parseEdsmBodies returns them: with and without id, name and
\* type; the parent absent or a body of neither list.
EdsmSourceBodies ==
    {SourceBody(1, p, l[1], l[2]) :
        p \in {-1, 3}, l \in {<<"", "">>, <<"A", "Star">>, <<"A", "Planet">>}}
    \cup {SourceBody(-1, -1, "A", "Star")}

\* Bodies as parseSpanshBodies returns them.
SpanshSourceBodies ==
    {SourceBody(i, p, l[1], l[2]) :
        i \in {1, 2}, p \in {-1, 3}, l \in {<<"A", "Star">>, <<"B", "Star">>}}
    \cup {SourceBody(-1, 3, "A", "Star")}

InitMerge ==
    /\ pc = "merge"
    /\ edsmBodies \in SeqsUpTo(EdsmSourceBodies, MaxMerged)
    /\ spanshBodies \in SeqsUpTo(SpanshSourceBodies, MaxMerged - Len(edsmBodies))
    /\ hadConflict = FALSE
    /\ bodies = <<>>
    /\ bodyMap = <<>>
    /\ request = Absent
    /\ emitted = <<>>
    /\ diagnostics = EmptyBag
    /\ hierarchyValid = None
    /\ IdlePipeline
    /\ IdleWalk

\* One call of mergeBodies on the two lists.
MergeBodies ==
    /\ pc = "merge"
    /\ \E order \in IterationOrders(MergedIds(edsmBodies, spanshBodies)) :
          LET result == mergeBodies(edsmBodies, spanshBodies, order)
          IN  /\ bodies' = result.merged
              /\ hadConflict' = result.hadConflict
    /\ pc' = "merged"
    /\ UNCHANGED <<edsmBodies, spanshBodies, bodyMap, request, emitted, diagnostics,
                   hierarchyValid, pipelineVars, walkVars>>

NextMerge == MergeBodies

SpecMerge == InitMerge /\ [][NextMerge]_vars
(***************************************************************************)
(* requestSystemBodies(systemName, mode): the aggregated request           *)
(***************************************************************************)
SystemNames == {"", " ", "Sol"}
trimmed(name) == IF name = " " THEN "" ELSE name

\* RequestAggregationState as constructed, with the arguments of the call
\* and the state of the three replies: "none" (not sent), "running",
\* "aborted" (timed out, finished not yet delivered), "finished".
NewRequest(systemName, mode) ==
    [systemName |-> systemName, mode |-> mode,
     edsmDone |-> FALSE, spanshDone |-> FALSE,
     edsmTimedOut |-> FALSE, spanshTimedOut |-> FALSE,
     edsmParsed |-> FALSE, spanshParsed |-> FALSE,
     edsmError |-> "", spanshError |-> "",
     edsmReply |-> "none", resolveReply |-> "none", spanshReply |-> "none"]

\* The lists a leg may parse: none, a star, two bodies that name each other.
LegLists ==
    {<<>>,
     <<[SourceBody(1, -1, "A", "Star") EXCEPT !.bodyClass = "Star"]>>,
     <<[SourceBody(1, 2, "B", "Planet") EXCEPT !.bodyClass = "Planet"],
       [SourceBody(2, 1, "C", "Planet") EXCEPT !.bodyClass = "Planet"]>>}

\* A mutant of Ready: the EDSM leg alone decides, in every mode.
ReadyOnEdsmAlone(state) == state.edsmDone

\* finalizeRequest: `ready`.
Ready(state) ==
    IF state.mode = "AutoMerge" THEN state.edsmDone /\ state.spanshDone ELSE state.edsmDone

\* SystemBodiesResult as finalizeRequest fills it before the closure.
Result(source, list, conflict) ==
    [selectedSource |-> source, merged |-> list, hadConflict |-> conflict]

\* A mutant of SelectedResult: the lists are merged in every case.
SelectedResultAlwaysMerged(state, edsm, spansh, order) ==
    Result("Merged", mergeBodies(edsm, spansh, order).merged,
           mergeBodies(edsm, spansh, order).hadConflict)

\* finalizeRequest: selectedSource, bodies and hadConflict of the result.
SelectedResult(state, edsm, spansh, order) ==
    IF state.mode = "AutoMerge" /\ state.edsmParsed /\ state.spanshParsed
    THEN Result("Merged", mergeBodies(edsm, spansh, order).merged,
                mergeBodies(edsm, spansh, order).hadConflict)
    ELSE IF state.mode # "AutoMerge" \/ state.edsmParsed THEN Result("Edsm", edsm, FALSE)
    ELSE IF state.spanshParsed THEN Result("Spansh", spansh, FALSE)
    ELSE Result("Edsm", <<>>, FALSE)

\* The terminal signal for a result with bodies: the failure of an invalid
\* hierarchy, or the result as systemBodiesReady carries it.
ResultSignal(result, prepared) ==
    IF ~prepared.valid THEN requestFailed("invalid hierarchy")
    ELSE [name |-> "systemBodiesReady", bodies |-> prepared.bodies,
          selectedSource |-> result.selectedSource, hadConflict |-> result.hadConflict]

\* finalizeRequest: failureReason.
FailureReason(state) ==
    IF state.edsmError # "" /\ state.spanshError # ""
    THEN "EDSM: " \o state.edsmError \o "; Spansh: " \o state.spanshError
    ELSE IF state.edsmError # "" THEN "EDSM: " \o state.edsmError
    ELSE IF state.spanshError # "" THEN "Spansh: " \o state.spanshError
    ELSE "both sources returned no bodies"

\* finalizeRequest, called at the end of a handler that left the aggregation
\* state as given.
FinalizeRequest(state, edsm, spansh) ==
    /\ request' = state
    /\ edsmBodies' = edsm
    /\ spanshBodies' = spansh
    /\ IF ~Ready(state)
       THEN UNCHANGED <<emitted, bodies, hadConflict, diagnostics>>
       ELSE \E order \in IterationOrders(MergedIds(edsm, spansh)) :
               LET result == SelectedResult(state, edsm, spansh, order)
                   prepared == prepareBodiesForGraph(result.merged)
               IN  /\ hadConflict' = result.hadConflict
                   /\ bodies' = IF result.merged = <<>> THEN <<>> ELSE prepared.bodies
                   /\ diagnostics' = IF result.merged = <<>> THEN diagnostics
                                     ELSE diagnostics (+) SeqToBag(prepared.diagnostics)
                   /\ emitted' = Append(emitted,
                          IF result.merged = <<>> THEN requestFailed(FailureReason(state))
                          ELSE ResultSignal(result, prepared))

\* A call not yet made.
InitAutoMerge ==
    /\ pc = "call"
    /\ request \in {NewRequest(n, m) : n \in SystemNames, m \in {"AutoMerge", "EdsmOnly"}}
    /\ emitted = <<>>
    /\ edsmBodies = <<>>
    /\ spanshBodies = <<>>
    /\ hadConflict = FALSE
    /\ bodyMap = <<>>
    /\ bodies = <<>>
    /\ diagnostics = EmptyBag
    /\ hierarchyValid = None
    /\ IdlePipeline
    /\ IdleWalk

\* requestSystemBodies up to its return: the empty-name failure, or the
\* EDSM request and, in AutoMerge, the index request, each with its timer.
RequestSystemBodies ==
    /\ pc = "call"
    /\ IF trimmed(request.systemName) = ""
       THEN /\ emitted' = Append(emitted, requestFailed("empty system name"))
            /\ pc' = "returned"
            /\ UNCHANGED request
       ELSE /\ request' = [request EXCEPT
                              !.edsmReply = "running",
                              !.resolveReply = IF request.mode = "AutoMerge"
                                               THEN "running" ELSE "none"]
            /\ pc' = "awaiting"
            /\ UNCHANGED emitted
    /\ UNCHANGED <<bodies, hierarchyValid, diagnostics, bodyMap, mergeVars,
                   pipelineVars, walkVars>>

\* The timeout lambda of a reply's timer: nothing if the reply is no longer
\* running, else the reply is marked and aborted.
EdsmTimeout ==
    /\ pc = "awaiting"
    /\ request.edsmReply = "running"
    /\ request' = [request EXCEPT !.edsmTimedOut = TRUE, !.edsmReply = "aborted"]
    /\ UNCHANGED <<pc, emitted, bodies, hierarchyValid, diagnostics, bodyMap, mergeVars,
                   pipelineVars, walkVars>>

ResolveTimeout ==
    /\ pc = "awaiting"
    /\ request.resolveReply = "running"
    /\ request' = [request EXCEPT !.spanshTimedOut = TRUE, !.resolveReply = "aborted"]
    /\ UNCHANGED <<pc, emitted, bodies, hierarchyValid, diagnostics, bodyMap, mergeVars,
                   pipelineVars, walkVars>>

SpanshTimeout ==
    /\ pc = "awaiting"
    /\ request.spanshReply = "running"
    /\ request' = [request EXCEPT !.spanshReply = "aborted"]
    /\ UNCHANGED <<pc, emitted, bodies, hierarchyValid, diagnostics, bodyMap, mergeVars,
                   pipelineVars, walkVars>>

\* The finished handler of the EDSM bodies reply.
EdsmFinished ==
    /\ pc = "awaiting"
    /\ request.edsmReply \in {"running", "aborted"}
    /\ \E outcome \in {"network error", "bad format", "object"}, list \in LegLists :
          LET done == [request EXCEPT !.edsmDone = TRUE, !.edsmReply = "finished"]
          IN  IF request.edsmReply = "aborted"
              THEN FinalizeRequest([done EXCEPT !.edsmError = "timeout"],
                                   edsmBodies, spanshBodies)
              ELSE IF outcome # "object"
              THEN FinalizeRequest([done EXCEPT !.edsmError = outcome],
                                   edsmBodies, spanshBodies)
              ELSE FinalizeRequest([done EXCEPT !.edsmParsed = TRUE], list, spanshBodies)
    /\ UNCHANGED <<pc, hierarchyValid, bodyMap, pipelineVars, walkVars>>

\* The finished handler of the index reply: a failure closes the Spansh
\* leg, an index starts the Spansh request.
ResolveFinished ==
    /\ pc = "awaiting"
    /\ request.resolveReply \in {"running", "aborted"}
    /\ \E outcome \in {"not found", "network error", "bad format", "no index", "index"} :
          LET seen == [request EXCEPT !.resolveReply = "finished"]
          IN  IF request.resolveReply = "aborted"
              THEN FinalizeRequest([seen EXCEPT !.spanshDone = TRUE,
                                                !.spanshError = "index timeout"],
                                   edsmBodies, spanshBodies)
              ELSE IF outcome # "index"
              THEN FinalizeRequest([seen EXCEPT !.spanshDone = TRUE,
                                                !.spanshError = "index: " \o outcome],
                                   edsmBodies, spanshBodies)
              ELSE /\ request' = [seen EXCEPT !.spanshReply = "running"]
                   /\ UNCHANGED <<emitted, bodies, diagnostics, edsmBodies, spanshBodies, hadConflict>>
    /\ UNCHANGED <<pc, hierarchyValid, bodyMap, pipelineVars, walkVars>>

\* The finished handler of the Spansh reply and the callback it calls.
SpanshFinished ==
    /\ pc = "awaiting"
    /\ request.spanshReply \in {"running", "aborted"}
    /\ \E outcome \in {"not found", "network error", "bad format", "api message", "object"},
          list \in LegLists :
          LET done == [request EXCEPT !.spanshDone = TRUE, !.spanshReply = "finished"]
          IN  IF request.spanshReply = "aborted"
              THEN FinalizeRequest([done EXCEPT !.spanshError = "timeout",
                                                !.spanshTimedOut = TRUE],
                                   edsmBodies, spanshBodies)
              ELSE IF outcome # "object"
              THEN FinalizeRequest([done EXCEPT !.spanshError = outcome],
                                   edsmBodies, spanshBodies)
              ELSE FinalizeRequest([done EXCEPT !.spanshParsed = TRUE], edsmBodies, list)
    /\ UNCHANGED <<pc, hierarchyValid, bodyMap, pipelineVars, walkVars>>

NextAutoMerge ==
    \/ RequestSystemBodies
    \/ EdsmTimeout
    \/ ResolveTimeout
    \/ SpanshTimeout
    \/ EdsmFinished
    \/ ResolveFinished
    \/ SpanshFinished

SpecAutoMerge == InitAutoMerge /\ [][NextAutoMerge]_vars
(***************************************************************************)
(* A body of no class that names a barycentre                              *)
(***************************************************************************)
\* An entry of the "bodies" array, which gives no class: without type text
\* its class is Unknown, with the type "Star" it is a star.
BodiesEntry(type, chain) ==
    RawEntry([coll |-> "bodies", type |-> type], 1, "string", chain)

BarycentreEntry(id) ==
    RawEntry([coll |-> "barycentres", type |-> "Barycentre"], id, "string", <<>>)

\* Body 1 names barycentre 3 as nearest ancestor, alone or followed by the
\* root or by star 2; star 2 is an entry, barycentre 3 may be one.
UnclassedEntries ==
    {<<StarEntry(2, <<>>), BodiesEntry(type, <<ParentRef("Null", 3)>> \o rest)>> \o bary :
        type \in {"", "Star"},
        rest \in {<<>>, <<ParentRef("Null", 0)>>, <<ParentRef("Star", 2)>>,
                  <<ParentRef("Star", 2), ParentRef("Null", 0)>>},
        bary \in {<<>>, <<BarycentreEntry(3)>>}}

InitUnclassed ==
    /\ provider = "EDASTRO"
    /\ ReplyArrived({ObjectDocument(NamedSystemObject(entries)) : entries \in UnclassedEntries})

SpecUnclassed == InitUnclassed /\ [][Next]_vars
(***************************************************************************)
(* readInt: the first of the candidate keys that yields an integer         *)
(***************************************************************************)
\* QJsonValue: a number (kept in tenths, so that 15 is 1.5), a string (its
\* characters) or null.
JsonNumber(tenths) == [kind |-> "double", tenths |-> tenths]
JsonString(chars) == [kind |-> "string", chars |-> chars]
JsonNull == [kind |-> "null"]

\* QJsonValue::toInt(defaultValue): the number when it is integral.
toInt(value, defaultValue) ==
    IF value.kind = "double" /\ value.tenths % 10 = 0
    THEN value.tenths \div 10 ELSE defaultValue

isSpace(c) == c = " "

RECURSIVE trimmedLeft(_)
trimmedLeft(chars) ==
    IF chars # <<>> /\ isSpace(Head(chars)) THEN trimmedLeft(Tail(chars)) ELSE chars

RECURSIVE trimmedRight(_)
trimmedRight(chars) ==
    IF chars # <<>> /\ isSpace(chars[Len(chars)])
    THEN trimmedRight(SubSeq(chars, 1, Len(chars) - 1)) ELSE chars

\* QString::trimmed
trimmedChars(chars) == trimmedRight(trimmedLeft(chars))

Digits == <<"0", "1", "2", "3", "4", "5", "6", "7", "8", "9">>
isDigit(c) == \E d \in DOMAIN Digits : Digits[d] = c
digitValue(c) == (CHOOSE d \in DOMAIN Digits : Digits[d] = c) - 1

RECURSIVE digitsToInt(_, _)
digitsToInt(chars, acc) ==
    IF chars = <<>> THEN acc
    ELSE digitsToInt(Tail(chars), acc * 10 + digitValue(Head(chars)))

\* QString::toInt(&ok): an optional sign and decimal digits, nothing else.
stringToInt(chars) ==
    LET signed == chars # <<>> /\ Head(chars) \in {"-", "+"}
        digits == IF signed THEN Tail(chars) ELSE chars
        ok == digits # <<>> /\ \A k \in DOMAIN digits : isDigit(digits[k])
    IN  [ok |-> ok,
         parsed |-> IF ~ok THEN 0
                    ELSE IF signed /\ Head(chars) = "-" THEN 0 - digitsToInt(digits, 0)
                    ELSE digitsToInt(digits, 0)]

RECURSIVE readIntFrom(_, _, _, _)
\* The loop of readInt from the k-th key on; object maps its keys to values.
readIntFrom(object, keys, k, defaultValue) ==
    IF k > Len(keys) THEN defaultValue
    ELSE IF keys[k] \notin DOMAIN object
    THEN readIntFrom(object, keys, k + 1, defaultValue)
    ELSE LET value == object[keys[k]]
         IN  IF value.kind = "double" THEN toInt(value, defaultValue)
             ELSE IF value.kind = "string" /\ stringToInt(trimmedChars(value.chars)).ok
             THEN stringToInt(trimmedChars(value.chars)).parsed
             ELSE readIntFrom(object, keys, k + 1, defaultValue)

readInt(object, keys, defaultValue) == readIntFrom(object, keys, 1, defaultValue)

\* The keys the EDAstro builder reads the id of an entry from.
bodyIdKeys == <<"bodyId", "id">>

JsonValues ==
    {JsonNumber(10), JsonNumber(15), JsonNumber(30),
     JsonString(<<" ", "1">>), JsonString(<<"3">>), JsonString(<<"1", ".", "5">>),
     JsonString(<<"x">>), JsonNull}

\* The objects with any of the two id keys.
JsonObjects ==
    {<<>>} \cup {("bodyId" :> v) : v \in JsonValues} \cup {("id" :> v) : v \in JsonValues}
    \cup {("bodyId" :> v) @@ ("id" :> w) : v \in JsonValues, w \in JsonValues}

\* An entry of the "planets" array with the given id members: its id is
\* what readInt makes of them.
KeyedEntry(members) ==
    LET entry == RawEntry([coll |-> "planets", type |-> "Planet"],
                          readInt(members, bodyIdKeys, -1), "string", <<>>)
    IN  [f \in DOMAIN entry \cup {"members"} |->
            IF f = "members" THEN members ELSE entry[f]]

InitKeyed ==
    /\ provider = "EDASTRO"
    /\ ReplyArrived({ObjectDocument(NamedSystemObject(<<StarEntry(2, <<>>), KeyedEntry(members)>>)) :
                        members \in JsonObjects})

SpecKeyed == InitKeyed /\ [][Next]_vars
(***************************************************************************)
(* Entries with alternate parent fields                                    *)
(***************************************************************************)
\* The `parent` member of an entry: {"bodyId": ..., "type": ...}.
ParentObject(bodyId, type) == [bodyId |-> bodyId, type |-> type]

\* Planet 1 with a chain and what readInt made of its parentPlanetId and
\* parentStarId members (-1 when absent) and its `parent` member.
FallbackEntry(chain, planetId, starId, parent) ==
    [RawEntry([coll |-> "planets", type |-> "Planet"], 1, "string", chain)
        EXCEPT !.parentPlanetId = planetId, !.parentStarId = starId, !.parent = parent]

\* Star 2 is an entry; ids 3 and 4 are the ids of no entry.
FallbackChains ==
    {<<>>, <<ParentRef("Star", 2)>>, <<ParentRef("Star", 3)>>, <<ParentRef("Null", 2)>>,
     <<ParentRef("Star", 3), ParentRef("Star", 2)>>,
     <<ParentRef("Star", 3), ParentRef("Null", 2)>>,
     <<ParentRef("Star", 3), ParentRef("Null", 4)>>}

FallbackEntries ==
    {<<StarEntry(2, <<>>), FallbackEntry(chain, planetId, starId, parent)>> :
        chain \in FallbackChains, planetId \in {-1, 0, 3}, starId \in {-1, 2, 3},
        parent \in {Absent, ParentObject(2, "Star"), ParentObject(3, "Star"),
                    ParentObject(0, "Null")}}

InitFallback ==
    /\ provider = "EDASTRO"
    /\ ReplyArrived({ObjectDocument(NamedSystemObject(entries)) : entries \in FallbackEntries})

SpecFallback == InitFallback /\ [][Next]_vars
(***************************************************************************)
(* Entries that share an id or have none                                   *)
(***************************************************************************)
\* Star 1 and a second entry, a star or a barycentre, whose id is 1 again,
\* 2, or -1 (no id member that readInt could read).
SharedIdEntries ==
    {<<StarEntry(1, first), RawEntry(kind, id, "string", second)>> :
        first \in ParentChains, second \in ParentChains, id \in {-1, 1, 2},
        kind \in {k \in EntryKinds : k.coll \in {"stars", "barycentres"}}}

InitSharedId ==
    /\ provider = "EDASTRO"
    /\ ReplyArrived({ObjectDocument(NamedSystemObject(entries)) : entries \in SharedIdEntries})

SpecSharedId == InitSharedId /\ [][Next]_vars
(***************************************************************************)
(* finalizeRequest on two parsed lists: mergeBodies, then                  *)
(* prepareBodiesForGraph on the merged list                                *)
(***************************************************************************)
SourceIds == {1, 2}

\* What a provider may say of one id: nothing, or a star or planet under no
\* body, under the centre or under a body of SourceIds.
SourceBodiesOf(id) ==
    {<<>>} \cup
    {<<[SourceBody(id, p, BodyName(id), c) EXCEPT !.bodyClass = c]>> :
        p \in {-1, 0} \cup SourceIds, c \in {"Star", "Planet"}}

\* The lists parseEdsmBodies and parseSpanshBodies return: closed by
\* prepareBodiesForGraph, valid or not.
ParsedLists ==
    {prepareBodiesForGraph(first \o second).bodies :
        first \in SourceBodiesOf(1), second \in SourceBodiesOf(2)}

InitMergeParsed ==
    /\ pc = "merge"
    /\ edsmBodies \in ParsedLists
    /\ spanshBodies \in ParsedLists
    /\ hadConflict = FALSE
    /\ bodies = <<>>
    /\ bodyMap = <<>>
    /\ request = Absent
    /\ emitted = <<>>
    /\ diagnostics = EmptyBag
    /\ hierarchyValid = None
    /\ IdlePipeline
    /\ IdleWalk

\* prepareBodiesForGraph on result.bodies.
PrepareMerged ==
    /\ pc = "merged"
    /\ LET prepared == prepareBodiesForGraph(bodies)
       IN  /\ bodies' = prepared.bodies
           /\ hierarchyValid' = (bodies # <<>> /\ prepared.valid)
           /\ diagnostics' = diagnostics (+) SeqToBag(prepared.diagnostics)
    /\ pc' = "prepared"
    /\ UNCHANGED <<edsmBodies, spanshBodies, hadConflict, bodyMap, request, emitted,
                   pipelineVars, walkVars>>

NextMergeParsed ==
    \/ MergeBodies
    \/ PrepareMerged

SpecMergeParsed == InitMergeParsed /\ [][NextMergeParsed]_vars
(***************************************************************************)
(* Properties of the reachability check                                    *)
(***************************************************************************)
\* The walk stated on its own: some sequence of pairwise distinct ids starts
\* at id, follows parentId from each body that is neither Star-class nor the
\* body with the centre-root id, and ends at a body that is one of the two.
ReachesStarOrRoot(list, id) ==
    LET byId == BodyById(list)
        known == DOMAIN byId
        IsEnd(b) == b.bodyClass = "Star" \/ b.id = 0
    IN  \E path \in SeqsUpTo(known, Cardinality(known)) :
            /\ path # <<>>
            /\ path[1] = id
            /\ \A j, k \in DOMAIN path : j # k => path[j] # path[k]
            /\ \A k \in 1 .. (Len(path) - 1) :
                    ~IsEnd(byId[path[k]]) /\ byId[path[k]].parentId = path[k + 1]
            /\ IsEnd(byId[path[Len(path)]])

RECURSIVE UnreachableIdsFrom(_, _)
\* The ids, in list order from index k on, of the bodies with id >= 0 that
\* have no such path.
UnreachableIdsFrom(list, k) ==
    IF k > Len(list) THEN <<>>
    ELSE (IF list[k].id >= 0 /\ ~ReachesStarOrRoot(list, list[k].id)
          THEN <<list[k].id>> ELSE <<>>) \o UnreachableIdsFrom(list, k + 1)

\* C3: validateHierarchyCanReachStarOrCenterRoot returns true exactly when every
\* body with id >= 0 reaches a Star-class body or the body with the virtual-root
\* id by parentId links without revisiting a body; it emits one diagnostic for
\* each list entry that does not, and it leaves the list as it was.
ValidateReportsExactlyUnreachable ==
    [][(pc = "list" /\ pc' = "validated") =>
            /\ bodies' = bodies
            /\ hierarchyValid' =
                  (\A i \in DOMAIN bodies :
                        bodies[i].id >= 0 => ReachesStarOrRoot(bodies, bodies[i].id))
            /\ LET ids == UnreachableIdsFrom(bodies, 1)
               IN  /\ BagToSet(diagnostics') =
                        {[kind |-> "unreachable", bodyId |-> ids[k]] : k \in DOMAIN ids}
                   /\ \A d \in BagToSet(diagnostics') :
                        CopiesIn(d, diagnostics') =
                            Cardinality({k \in DOMAIN ids : ids[k] = d.bodyId})]_vars

\* A validated list with a two-body parent cycle, reported twice.
ValidateCycleWitness ==
    /\ pc = "validated"
    /\ hierarchyValid = FALSE
    /\ Len(bodies) = 2
    /\ bodies[1].parentId = bodies[2].id
    /\ bodies[2].parentId = bodies[1].id
    /\ bodies[1].id # bodies[2].id
    /\ BagCardinality(diagnostics) = 2

\* C4: a walk makes at most N + 1 invocations and holds at most N bodies in its
\* guard (N = number of bodies); it ends with success exactly at a Star-class
\* body or at the body with the virtual-root id, and with failure otherwise.
WalkEndsWithinBodyCount ==
    /\ walkCalls <= Len(bodies) + 1
    /\ Cardinality(recursionGuard) <= Len(bodies)
    /\ pc = "walk" => walkCalls = Cardinality(recursionGuard)
    /\ pc = "walked" =>
          /\ walkVerdict \in BOOLEAN
          /\ walkVerdict =
                (/\ walkCur \in KnownIds(bodies)
                 /\ LET b == BodyById(bodies)[walkCur]
                    IN  b.bodyClass = "Star" \/ b.id = 0)

\* A walk round a two-body cycle: N + 1 invocations, the last one stopped by
\* the guard.
WalkCycleWitness ==
    /\ pc = "walked"
    /\ walkVerdict = FALSE
    /\ Len(bodies) = 2
    /\ walkCalls = 3

(***************************************************************************)
(* Properties of the builders' lists                                       *)
(***************************************************************************)
\* The ids of the bodies of a list.
IdsIn(list) == {list[i].id : i \in DOMAIN list}

\* C1: in the list a provider builder returns, the parentId of every body,
\* the body with id 0 included, is -1 or the id of a body of that list.
BuilderParentsAreListed ==
    pc = "built" =>
        \A i \in DOMAIN bodies :
            bodies[i].parentId = -1 \/ bodies[i].parentId \in IdsIn(bodies)

RunsIntoCycle(list, id) ==
    LET byId == BodyById(list)
        known == DOMAIN byId
    IN  \E path \in SeqsUpTo(known, Cardinality(known)) :
            /\ path # <<>>
            /\ path[1] = id
            /\ \A k \in DOMAIN path :
                    byId[path[k]].bodyClass # "Star" /\ path[k] # 0
            /\ \A k \in 1 .. (Len(path) - 1) : byId[path[k]].parentId = path[k + 1]
            /\ byId[path[Len(path)]].parentId \in SeqToSet(path)

ClosedListHasRoot ==
    (pc = "built" /\ bodies # <<>>) =>
        \E i \in DOMAIN bodies :
            bodies[i].parentId < 0 \/ bodies[i].parentId \notin IdsIn(bodies)

\* C11: after closure exactly one body of the list has the virtual-root id,
\* and it is the synthetic 'System Center' placeholder, never a body the
\* provider supplied (nor one synthesized for a provider reference).
OnlySystemCenterHasRootId ==
    (pc = "built" /\ bodies # <<>>) =>
        /\ Cardinality({i \in DOMAIN bodies :
                            bodies[i].id = kExternalVirtualBarycenterMarkerId}) = 1
        /\ \A i \in DOMAIN bodies :
              bodies[i].id = kExternalVirtualBarycenterMarkerId => bodies[i] = SystemCenter

\* C13: in the list a provider builder returns, no body has its own id as
\* parentId.
BuilderListHasNoSelfParent ==
    pc = "built" => \A i \in DOMAIN bodies : bodies[i].parentId # bodies[i].id

\* C16: in the list a provider builder returns, every body whose parent
\* relation is a Null relation and whose parentId names a body other than
\* the virtual root has as parent a Barycenter-class body of the list.
NullParentsAreBarycenters ==
    pc = "built" =>
        \A i \in DOMAIN bodies :
            (/\ ContainsInsensitive(bodies[i].parentRelationType, "null")
             /\ bodies[i].parentId > kExternalVirtualBarycenterMarkerId)
            => \E j \in DOMAIN bodies :
                  /\ bodies[j].id = bodies[i].parentId
                  /\ bodies[j].bodyClass = "Barycenter"

(***************************************************************************)
(* Properties of the barycenter resolution                                 *)
(***************************************************************************)
\* The candidates the chains record for barycenter id: the link that follows
\* Null:<id> in the chain of a Star-, Planet- or Moon-class body, or the
\* virtual-root reference when Null:<id> ends the chain.
RecordedCandidates(list, chains, id) ==
    {IF j < Len(ChainOf(chains, list[b].id))
     THEN ChainOf(chains, list[b].id)[j + 1] ELSE VirtualRootRef :
        <<b, j>> \in {<<c, k>> \in (DOMAIN list) \X (1 .. MaxChain + 1) :
            /\ list[c].bodyClass \in {"Star", "Planet", "Moon"}
            /\ k <= Len(ChainOf(chains, list[c].id))
            /\ ChainOf(chains, list[c].id)[k] = ParentRef("Null", id)}}

\* The conflict messages among the messages of a bag, with multiplicity.
ConflictCount(bag) ==
    BagCardinality([d \in {x \in BagToSet(bag) : x.kind = "barycenter conflict"}
                        |-> CopiesIn(d, bag)])

\* What the claim demands of body after, the barycenter before at the same
\* place, given the candidates recorded for its id.
ResolvedByCandidates(before, after, candidates, oldBag, newBag) ==
    /\ after.id = before.id /\ after.bodyClass = "Barycenter"
    /\ Cardinality(candidates) = 0 =>
          after.parentId = -1 /\ after.parentRelationType = "Unknown"
    /\ Cardinality(candidates) = 1 =>
          \E c \in candidates :
              after.parentId = c.bodyId /\ after.parentRelationType = c.type
    /\ Cardinality(candidates) > 1 =>
          /\ after.parentId = -1 /\ after.parentRelationType = "Conflict"
          /\ CopiesIn(ConflictDiag(before.id, candidates), newBag)
                = CopiesIn(ConflictDiag(before.id, candidates), oldBag) + 1

\* C5: buildBarycenterHierarchy gives every Barycenter-class body the parent
\* its recorded candidates determine, whatever parent it had before: the
\* candidate when there is exactly one, -1/'Unknown' when there is none,
\* -1/'Conflict' and one conflict diagnostic listing them when there are two
\* or more; the other bodies are left alone and no other conflict diagnostic
\* is emitted.
BarycenterParentFromCandidates ==
    [][(pc = "synthesized" /\ pc' = "linked") =>
          /\ DOMAIN bodies' = DOMAIN bodies
          /\ \A i \in DOMAIN bodies :
                IF bodies[i].bodyClass = "Barycenter"
                THEN ResolvedByCandidates(bodies[i], bodies'[i],
                         RecordedCandidates(bodies, parentsByBodyId, bodies[i].id),
                         diagnostics, diagnostics')
                ELSE bodies'[i] = bodies[i]
          /\ ConflictCount(diagnostics') - ConflictCount(diagnostics)
                = Cardinality({i \in DOMAIN bodies :
                      /\ bodies[i].bodyClass = "Barycenter"
                      /\ Cardinality(RecordedCandidates(bodies, parentsByBodyId,
                                                        bodies[i].id)) > 1})]_vars

\* After the hierarchy was built: a barycenter for which two distinct
\* candidates were recorded is left without parent, as a conflict, and the
\* conflict diagnostic of its id is among the messages.
BarycenterConflictWitness ==
    /\ pc = "linked"
    /\ \E i \in DOMAIN bodies :
          /\ bodies[i].bodyClass = "Barycenter"
          /\ Cardinality(RecordedCandidates(bodies, parentsByBodyId, bodies[i].id)) = 2
          /\ bodies[i].parentId = -1
          /\ bodies[i].parentRelationType = "Conflict"
          /\ ConflictCount(diagnostics) = 1

(***************************************************************************)
(* Properties of the EDAstro documents and of the terminal signal          *)
(***************************************************************************)
\* The body of the list with the given id, when there is exactly one.
HasBodyWith(list, id, bodyClass, parentId, relation) ==
    \E i \in DOMAIN list :
        /\ list[i].id = id
        /\ list[i].bodyClass = bodyClass
        /\ list[i].parentId = parentId
        /\ list[i].parentRelationType = relation

\* C6: for a primary star S and two companion stars that both carry
\* Null:X;Star:S, no entry having id X, the returned list holds a Barycenter
\* body X with parent S and relation 'Star', and both companions have
\* parentId = X.
CompanionsOrbitSynthesizedBarycenter ==
    (pc = "built" /\ doc.root = "object" /\ Len(doc.object.entries) = 3) =>
        LET primary == doc.object.entries[1]
            first == doc.object.entries[2]
            second == doc.object.entries[3]
            x == first.parents[1].bodyId
        IN  /\ HasBodyWith(bodies, x, "Barycenter", primary.id, "Star")
            /\ \E i \in DOMAIN bodies : bodies[i].id = first.id /\ bodies[i].parentId = x
            /\ \E i \in DOMAIN bodies : bodies[i].id = second.id /\ bodies[i].parentId = x

\* The collection entries a document carries, wherever its layout puts them.
CarriedEntries(document) ==
    IF document.root = "array"
    THEN (IF document.items = <<>> THEN <<>> ELSE document.items[1].entries)
    ELSE IF document.root # "object" THEN <<>>
    ELSE IF document.object.entries # <<>> THEN document.object.entries
    ELSE IF document.object.data # Absent THEN document.object.data.entries
    ELSE IF document.object.result # Absent THEN document.object.result.entries
    ELSE IF document.object.systems # <<>> THEN document.object.systems[1].entries
    ELSE <<>>

\* The lists the builder returns for the entries under a named system object.
NamedObjectResults(entries) ==
    {parseEdastroBodiesFromObject(NamedSystemObject(entries), order).bodies :
        order \in IterationOrders(
            MissingBarycenterIds(
                ParseRawBodies(RawBodies(NamedSystemObject(entries))).bodies,
                ParseRawBodies(RawBodies(NamedSystemObject(entries))).parentsByBodyId))}

\* The root object holds the collections itself and has no name, or it
\* holds them one level down.
IsUnnamedOrNestedLayout(document) ==
    /\ document.root = "object"
    /\ CarriedEntries(document) # <<>>
    /\ \/ document.object.entries # <<>> /\ ~document.object.hasName
       \/ document.object.entries = <<>>

\* C7: parseEdastroBodies returns for a root object without name that holds
\* the collections, and for a root object that nests them one level down, the
\* list it returns for the same collections under a named system object; every
\* entry of `stars` is in it with its id, name and class.
LayoutsGiveSameBodies ==
    (pc = "built" /\ IsUnnamedOrNestedLayout(doc)) =>
        /\ bodies \in NamedObjectResults(CarriedEntries(doc))
        /\ \A k \in DOMAIN CarriedEntries(doc) :
              CarriedEntries(doc)[k].coll = "stars" =>
                 \E i \in DOMAIN bodies :
                    /\ bodies[i].id = CarriedEntries(doc)[k].id
                    /\ bodies[i].name = CarriedEntries(doc)[k].name
                    /\ bodies[i].bodyClass = "Star"

\* C8: a document that yields no body entries makes the builder return an
\* empty list and the request end with requestFailed; no list is delivered.
NoEntriesFailTheRequest ==
    (reply = "ok" /\ doc.root # "scalar" /\ CarriedEntries(doc) = <<>>) =>
        /\ pc = "built" => bodies = <<>>
        /\ pc = "done" => signal.name = "requestFailed"

\* The request was answered with a document the client could read.
ParsedDocument == reply = "ok" /\ doc.root = "object"

IndicesOf(list, id) == {i \in DOMAIN list : list[i].id = id}

\* The entry of the list that comes last among those with the given id.
LastEntryOf(list, id) ==
    list[CHOOSE i \in IndicesOf(list, id) : \A j \in IndicesOf(list, id) : j <= i]

\* C12: no body of the map has its own id as parentId; a body with an id
\* other than the virtual-root id whose list entry names itself as parent is
\* in the map with the virtual-root id as parent, relation 'Null' and
\* orbitsBarycenter set.
MapHasNoSelfParent ==
    pc = "mapped" =>
        /\ \A id \in DOMAIN bodyMap : bodyMap[id].parentId # id
        /\ \A id \in DOMAIN bodyMap :
              (id # 0 /\ LastEntryOf(bodies, id).parentId = id) =>
                  /\ bodyMap[id].parentId = 0
                  /\ bodyMap[id].parentRelationType = "Null"
                  /\ bodyMap[id].orbitsBarycenter

\* A map built from a list in which a body other than id 0 named itself as
\* parent: the body is in the map, under the virtual-root id.
SelfParentNormalizedWitness ==
    /\ pc = "mapped"
    /\ \E i \in DOMAIN bodies :
          /\ bodies[i].id > 0
          /\ bodies[i].parentId = bodies[i].id
          /\ bodies[i].id \in DOMAIN bodyMap
          /\ bodyMap[bodies[i].id].parentId = 0

\* C14 as stated: the map has exactly one entry for every id >= 0 of the
\* list, with the name, type and parent fields of the last list entry of
\* that id; one warning is emitted for every overwritten entry.
MapKeepsLastEntryFields ==
    pc = "mapped" =>
        /\ DOMAIN bodyMap = {bodies[i].id : i \in DOMAIN bodies} \cap Nat
        /\ \A id \in DOMAIN bodyMap :
              /\ bodyMap[id].id = id
              /\ bodyMap[id].name = LastEntryOf(bodies, id).name
              /\ bodyMap[id].type = LastEntryOf(bodies, id).type
              /\ bodyMap[id].parentId = LastEntryOf(bodies, id).parentId
              /\ bodyMap[id].parentRelationType
                    = LastEntryOf(bodies, id).parentRelationType
        /\ BagCardinality([d \in {x \in BagToSet(diagnostics) : x.kind = "duplicate id"}
                              |-> CopiesIn(d, diagnostics)])
              = Cardinality({i \in DOMAIN bodies :
                    bodies[i].id >= 0 /\ \E j \in DOMAIN bodies :
                        j > i /\ bodies[j].id = bodies[i].id})

\* C14, amended: the map has exactly one entry for every id >= 0 of the
\* list and none for a body with id < 0; its name and type are those of the
\* last list entry of that id, and so are its parent fields unless that entry
\* names itself as parent, in which case the parent is -1 for the
\* virtual-root id and the virtual-root id for any other id, with relation
\* 'Null'; one warning is emitted for every overwritten entry.
MapKeepsLastEntryNormalized ==
    pc = "mapped" =>
        /\ DOMAIN bodyMap = {bodies[i].id : i \in DOMAIN bodies} \cap Nat
        /\ \A id \in DOMAIN bodyMap :
              /\ bodyMap[id].id = id
              /\ bodyMap[id].name = LastEntryOf(bodies, id).name
              /\ bodyMap[id].type = LastEntryOf(bodies, id).type
              /\ bodyMap[id].bodyClass = LastEntryOf(bodies, id).bodyClass
              /\ IF LastEntryOf(bodies, id).parentId = id
                 THEN /\ bodyMap[id].parentId = (IF id = 0 THEN -1 ELSE 0)
                      /\ bodyMap[id].parentRelationType = "Null"
                 ELSE /\ bodyMap[id].parentId = LastEntryOf(bodies, id).parentId
                      /\ bodyMap[id].parentRelationType
                            = LastEntryOf(bodies, id).parentRelationType
        /\ BagCardinality([d \in {x \in BagToSet(diagnostics) : x.kind = "duplicate id"}
                              |-> CopiesIn(d, diagnostics)])
              = Cardinality({i \in DOMAIN bodies :
                    bodies[i].id >= 0 /\ \E j \in DOMAIN bodies :
                        j > i /\ bodies[j].id = bodies[i].id})

\* A map built from a list with two different entries of one id: the later
\* entry is in the map and a duplicate warning was emitted.
DuplicateOverwrittenWitness ==
    /\ pc = "mapped"
    /\ Len(bodies) = 2
    /\ bodies[1].id = bodies[2].id
    /\ bodies[1].id >= 0
    /\ bodies[1].name # bodies[2].name
    /\ bodies[1].parentId # bodies[2].parentId
    /\ bodyMap[bodies[2].id].name = bodies[2].name
    /\ \E d \in BagToSet(diagnostics) : d.kind = "duplicate id"

\* C15: children is exactly the inverse of the parentId edges of the map:
\* for all bodies a and b of the map, b.id occurs in a.children if and only
\* if b.parentId = a.id, and it occurs there exactly once.
ChildrenInvertParentEdges ==
    pc = "mapped" =>
        \A a \in DOMAIN bodyMap : \A b \in DOMAIN bodyMap :
            Cardinality({k \in DOMAIN bodyMap[a].children :
                            bodyMap[a].children[k] = b})
                = (IF bodyMap[b].parentId = a THEN 1 ELSE 0)

\* A map in which a body other than the virtual root has a child, built from
\* a list that names the child twice.
ChildOfOrdinaryBodyWitness ==
    /\ pc = "mapped"
    /\ Len(bodies) = 2
    /\ \E a \in DOMAIN bodyMap \ {0} : \E b \in DOMAIN bodyMap :
          /\ bodyMap[b].parentId = a
          /\ bodyMap[a].children = <<b>>

\* The document of the claim: the planet is parented on star 0 and the moon
\* carries the whole chain Planet:P;Null:B;Null:0.
IsMoonOnlyChainDocument ==
    /\ doc # NoDocument
    /\ doc.root = "object"
    /\ Len(doc.object.entries) = 4
    /\ doc.object.entries[2].parents = <<ParentRef("Star", 0)>>
    /\ doc.object.entries[3].parents
          = MoonChainOf(doc.object.entries[2].id, doc.object.entries[4].id)

LastOf(list, id) == list[LastIndexOf(list, id)]

\* The ids >= 0 of the bodies of a list.
IdsOf(list) == {list[i].id : i \in DOMAIN list} \cap Nat

\* The version of the id that the two lists give: the priority (Spansh)
\* list's if it has the id, else the EDSM list's.
PriorityVersion(id) ==
    IF id \in IdsOf(spanshBodies) THEN LastOf(spanshBodies, id) ELSE LastOf(edsmBodies, id)

\* Exactly one body per id >= 0 of either list, and it is the priority
\* version of that id.
MergedHoldsPriorityVersions ==
    \A id \in IdsOf(edsmBodies) \cup IdsOf(spanshBodies) :
        /\ Cardinality({i \in DOMAIN bodies : bodies[i].id = id}) = 1
        /\ \A i \in DOMAIN bodies : bodies[i].id = id => bodies[i] = PriorityVersion(id)

\* C18 as stated: one body per id >= 0 of either list, the Spansh version for
\* an id of both lists, the only version otherwise; hadConflict is set
\* exactly when some id of both lists has a non-empty name or type in the
\* EDSM version that differs from the Spansh version.
MergeFlagsSharedIdConflicts ==
    pc = "merged" =>
        /\ MergedHoldsPriorityVersions
        /\ hadConflict <=>
              \E id \in IdsOf(edsmBodies) \cap IdsOf(spanshBodies) :
                 \/ /\ LastOf(edsmBodies, id).name # ""
                    /\ LastOf(edsmBodies, id).name # LastOf(spanshBodies, id).name
                 \/ /\ LastOf(edsmBodies, id).type # ""
                    /\ LastOf(edsmBodies, id).type # LastOf(spanshBodies, id).type

AllRepliesHandled ==
    /\ pc # "call"
    /\ \A r \in {request.edsmReply, request.resolveReply, request.spanshReply} :
          r \in {"none", "finished"}

\* At most one terminal signal, none before both legs are done, and one
\* once every reply has been handled.
OneSignalAfterBothLegs ==
    /\ Len(emitted) <= 1
    /\ emitted # <<>> => request.edsmDone /\ request.spanshDone
    /\ AllRepliesHandled => Len(emitted) = 1

\* C20 as stated: for every AutoMerge call, whatever the order of the EDSM
\* reply, the index reply, the Spansh reply and their timeouts, exactly one
\* terminal signal is emitted, and only after edsmDone and spanshDone.
AutoMergeEmitsOnceAfterBothLegs ==
    request.mode = "AutoMerge" => OneSignalAfterBothLegs

\* C20, amended: for every AutoMerge call exactly one terminal signal is
\* emitted, whatever the order of the replies and timeouts; for a system name
\* that is not blank it is emitted only after edsmDone and spanshDone, for a
\* blank name it is requestFailed, emitted at once with no request sent.
AutoMergeEmitsOnceAfterLegsOrAtOnce ==
    request.mode = "AutoMerge" =>
        IF trimmed(request.systemName) # ""
        THEN OneSignalAfterBothLegs
        ELSE /\ Len(emitted) <= 1
             /\ AllRepliesHandled => Len(emitted) = 1
             /\ request.edsmReply = "none" /\ request.resolveReply = "none"
             /\ \A k \in DOMAIN emitted : emitted[k].name = "requestFailed"

\* An AutoMerge request whose index reply timed out after the EDSM bodies
\* were parsed: the EDSM list was delivered once both legs were done.
AutoMergeTimeoutWitness ==
    /\ request.mode = "AutoMerge"
    /\ request.edsmParsed
    /\ request.spanshTimedOut
    /\ request.spanshDone
    /\ Len(emitted) = 1
    /\ emitted[1].name = "systemBodiesReady"

\* The result a delivered systemBodiesReady carries, for one parsed leg.
CarriesOnly(source, list) ==
    /\ emitted[1].selectedSource = source
    /\ emitted[1].bodies = prepareBodiesForGraph(list).bodies
    /\ ~emitted[1].hadConflict

\* C21: in AutoMerge, when exactly one provider delivered a parsed document,
\* the delivered result carries that provider's bodies (closed by
\* prepareBodiesForGraph) with selectedSource naming it; the result is a
\* merged one only when both providers were parsed; a reply that timed out
\* or failed is never parsed and leaves its list empty.
PartialResultNamesItsProvider ==
    request.mode = "AutoMerge" =>
        /\ (request.edsmError # "" \/ request.edsmTimedOut) =>
              (~request.edsmParsed /\ edsmBodies = <<>>)
        /\ (request.spanshError # "" \/ request.spanshTimedOut) =>
              (~request.spanshParsed /\ spanshBodies = <<>>)
        /\ (emitted # <<>> /\ emitted[1].name = "systemBodiesReady") =>
              /\ (request.edsmParsed /\ ~request.spanshParsed)
                    => CarriesOnly("Edsm", edsmBodies)
              /\ (request.spanshParsed /\ ~request.edsmParsed)
                    => CarriesOnly("Spansh", spanshBodies)
              /\ emitted[1].selectedSource = "Merged"
                    <=> (request.edsmParsed /\ request.spanshParsed)

\* The Spansh list was delivered alone after the EDSM bodies request timed
\* out.
SpanshAloneAfterEdsmTimeoutWitness ==
    /\ request.mode = "AutoMerge"
    /\ request.edsmTimedOut
    /\ request.spanshParsed
    /\ emitted # <<>>
    /\ emitted[1].name = "systemBodiesReady"
    /\ emitted[1].selectedSource = "Spansh"
    /\ spanshBodies # <<>>

\* The candidates the chains of the bodies of every class but Barycenter
\* record for barycenter id: the link that follows Null:<id>, or the
\* virtual-root reference when Null:<id> ends the chain.
CandidatesOfAnyClass(list, chains, id) ==
    {IF j < Len(ChainOf(chains, list[b].id))
     THEN ChainOf(chains, list[b].id)[j + 1] ELSE VirtualRootRef :
        <<b, j>> \in {<<c, k>> \in (DOMAIN list) \X (1 .. MaxChain + 1) :
            /\ list[c].bodyClass # "Barycenter"
            /\ k <= Len(ChainOf(chains, list[c].id))
            /\ ChainOf(chains, list[c].id)[k] = ParentRef("Null", id)}}

\* C22: buildBarycenterHierarchy records candidates from the chain of every
\* body that is not a barycenter, whatever its class, Unknown included: a
\* barycenter gets the parent that the links following Null:<its id> in
\* those chains determine.
CandidatesFromEveryClass ==
    [][(pc = "synthesized" /\ pc' = "linked") =>
          \A i \in DOMAIN bodies :
              bodies[i].bodyClass = "Barycenter" =>
                  ResolvedByCandidates(bodies[i], bodies'[i],
                      CandidatesOfAnyClass(bodies, parentsByBodyId, bodies[i].id),
                      diagnostics, diagnostics')]_vars

\* The chain entries the claim calls valid: the virtual-root reference, or a
\* reference that names an existing body id.
NamesKnownBody(ref, existingBodyIds) ==
    isVirtualRootRef(ref) \/ ref.bodyId \in existingBodyIds

MismatchCount(bag, bodyId) ==
    BagCardinality([d \in {e \in BagToSet(bag) :
                              e.kind = "parents-order mismatch" /\ e.bodyId = bodyId}
                    |-> CopiesIn(d, bag)])

\* What the claim demands of the body parsed from an entry with a non-empty
\* chain that has no alternate parent fields.
SelectedFirstKnown(body, chain, existingBodyIds, bag) ==
    LET known == {k \in DOMAIN chain : NamesKnownBody(chain[k], existingBodyIds)}
    IN  IF known = {}
        THEN \A k \in DOMAIN chain :
                ~(body.parentId = chain[k].bodyId /\ body.parentRelationType = chain[k].type)
        ELSE LET first == CHOOSE k \in known : \A j \in known : k <= j
             IN  /\ body.parentId = chain[first].bodyId
                 /\ body.parentRelationType = chain[first].type
                 /\ MismatchCount(bag, body.id) = (IF first = 1 THEN 0 ELSE 1)

\* C23: applyDirectParentFromChain selects the first chain entry that is the
\* virtual-root reference or names an existing body id; no parents-order
\* mismatch diagnostic when that is the nearest entry, exactly one when it is
\* a later entry, and no entry of the chain is kept as the parent when none
\* is valid.
ChainSelectsFirstKnownEntry ==
    (pc = "parsed") =>
        \A i \in DOMAIN bodies :
            ParentChainOf(RawBodies(sysObj)[i]) # <<>> =>
                SelectedFirstKnown(bodies[i], ParentChainOf(RawBodies(sysObj)[i]),
                                   ExistingBodyIds(RawBodies(sysObj)), diagnostics)

\* A value that coerces to an integer: an integral number or a numeric
\* string.
Coerces(value) ==
    \/ value.kind = "double" /\ value.tenths % 10 = 0
    \/ value.kind = "string" /\ stringToInt(trimmedChars(value.chars)).ok

CoercedInt(value) ==
    IF value.kind = "double" THEN value.tenths \div 10
    ELSE stringToInt(trimmedChars(value.chars)).parsed

\* C27: readInt returns the value of the first candidate key, in list order,
\* whose value coerces to an integer, and the default only when no candidate
\* key is present with such a value: a candidate that fails never hides a
\* later one that succeeds.
ReadIntTakesFirstCoercible ==
    (pc = "parsed" /\ Len(sysObj.entries) = 2 /\ "members" \in DOMAIN sysObj.entries[2]) =>
        LET members == sysObj.entries[2].members
            good == {k \in DOMAIN bodyIdKeys :
                        bodyIdKeys[k] \in DOMAIN members /\ Coerces(members[bodyIdKeys[k]])}
        IN  bodies[2].id = IF good = {} THEN -1
                           ELSE CoercedInt(members[bodyIdKeys[
                                    CHOOSE k \in good : \A j \in good : k <= j]])

\* A reference the claim lets stand: the root (id 0 or the virtual-root
\* reference) or the id of an existing body.
RefersToRootOrBody(ref, existingBodyIds) ==
    \/ isVirtualRootRef(ref)
    \/ isParentReferenceValid(ref.bodyId, existingBodyIds)

\* The alternate fields in the order the claim gives, as references.
AlternateRefs(bodyObj) ==
    <<ParentRef("Planet", bodyObj.parentPlanetId), ParentRef("Star", bodyObj.parentStarId)>>
    \o (IF bodyObj.parent = Absent THEN <<>>
        ELSE <<ParentRef(bodyObj.parent.type, bodyObj.parent.bodyId)>>)

\* What the claim demands of the body parsed from bodyObj.
ParentFromChainElseAlternates(body, bodyObj, existingBodyIds) ==
    LET chain == ParentChainOf(bodyObj)
        alternates == AlternateRefs(bodyObj)
        accepted == {k \in DOMAIN alternates :
                        /\ alternates[k].bodyId >= 0
                        /\ isParentReferenceValid(alternates[k].bodyId, existingBodyIds)}
    IN  IF \E k \in DOMAIN chain : RefersToRootOrBody(chain[k], existingBodyIds)
        THEN \E k \in DOMAIN chain :
                /\ body.parentId = chain[k].bodyId
                /\ body.parentRelationType = chain[k].type
        ELSE IF accepted = {}
        THEN body.parentId = -1 /\ body.parentRelationType = ""
        ELSE LET first == CHOOSE k \in accepted : \A j \in accepted : k <= j
             IN  /\ body.parentId = alternates[first].bodyId
                 /\ body.parentRelationType = alternates[first].type

\* C24: the alternate parent fields are consulted only when no entry of the
\* parent chain validates; the planet reference is tried before the star
\* reference and that before the `parent` object, a value is accepted only
\* if it is the root id or the id of an existing body, and when none is
\* accepted the body is left with parent -1 and an empty relation type.
AlternatesOnlyWhenChainFails ==
    (pc = "parsed") =>
        \A i \in DOMAIN bodies :
            ParentFromChainElseAlternates(bodies[i], RawBodies(sysObj)[i],
                                          ExistingBodyIds(RawBodies(sysObj)))

\* The chains of all the entries.
EntryChains(rawBodies) == {ParentChainOf(rawBodies[i]) : i \in DOMAIN rawBodies}

\* The chains the parser keeps: for each id >= 0 that of its last entry.
KeptChains(rawBodies) ==
    {ParentChainOf(rawBodies[i]) : i \in {j \in DOMAIN rawBodies :
        /\ rawBodies[j].id >= 0
        /\ \A k \in DOMAIN rawBodies : k > j => rawBodies[k].id # rawBodies[j].id}}

\* The ids X >= 0 of the Null:<X> links of the chains that are the id of no
\* body of the list.
NamedMissingBarycenters(list, chains) ==
    {X \in 0 .. 4 :
        /\ \E chain \in chains : \E k \in DOMAIN chain : chain[k] = ParentRef("Null", X)
        /\ \A i \in DOMAIN list : list[i].id # X}

IsPlaceholder(body, X) ==
    /\ body.id = X
    /\ body.bodyClass = "Barycenter"
    /\ body.name = BarycenterName(X)
    /\ body.parentId = -1

\* One placeholder per missing id is appended and nothing else changes.
AppendsPlaceholders(before, after, missing) ==
    /\ Len(after) = Len(before) + Cardinality(missing)
    /\ SubSeq(after, 1, Len(before)) = before
    /\ \A X \in missing :
          \E i \in (Len(before) + 1) .. Len(after) : IsPlaceholder(after[i], X)

\* buildBarycenterHierarchy gives each placeholder the parent its candidates
\* determine.
PlaceholdersResolvedByCandidates ==
    \A i \in DOMAIN bodies :
        i > Len(RawBodies(sysObj)) =>
            ResolvedByCandidates(bodies[i], bodies'[i],
                RecordedCandidates(bodies, parentsByBodyId, bodies[i].id),
                diagnostics, diagnostics')

\* C25 as stated: synthesizeMissingBarycenters appends exactly one
\* placeholder (class Barycenter, name 'Barycenter <X>', no parent) for each
\* id X >= 0 named by a Null:<X> link of any parent chain that is the id of no
\* body, appends nothing else and leaves the bodies it found as they were;
\* buildBarycenterHierarchy runs after it and gives each placeholder the
\* parent its candidates determine.
PlaceholdersForEveryChain ==
    [][/\ (pc = "parsed" /\ pc' = "synthesized") =>
            AppendsPlaceholders(bodies, bodies',
                NamedMissingBarycenters(bodies, EntryChains(RawBodies(sysObj))))
       /\ (pc = "synthesized" /\ pc' = "linked") => PlaceholdersResolvedByCandidates]_vars

\* C25 amended: the same, for the Null:<X> links of the chains the parser
\* keeps, which are the chain of the last entry of each id >= 0.
PlaceholdersForKeptChains ==
    [][/\ (pc = "parsed" /\ pc' = "synthesized") =>
            AppendsPlaceholders(bodies, bodies',
                NamedMissingBarycenters(bodies, KeptChains(RawBodies(sysObj))))
       /\ (pc = "synthesized" /\ pc' = "linked") => PlaceholdersResolvedByCandidates]_vars

\* A placeholder was added and has received a body as its parent.
PlaceholderParentedWitness ==
    /\ pc = "linked"
    /\ \E i \in DOMAIN bodies :
          /\ i > Len(RawBodies(sysObj))
          /\ bodies[i].name = BarycenterName(bodies[i].id)
          /\ bodies[i].parentId >= 0

\* orbitsBarycenter is set wherever the relation denotes a barycenter.
OrbitsFlagFollowsRelation(body) ==
    isBarycenterRef(body.parentRelationType) => body.orbitsBarycenter

\* C26: in every body of a builder's returned list and of the map returned
\* by buildBodyMap, orbitsBarycenter is true whenever parentRelationType
\* contains 'Null' or 'Bary'.
OrbitsBarycenterWheneverNullRelation ==
    /\ (pc = "built") => \A i \in DOMAIN bodies : OrbitsFlagFollowsRelation(bodies[i])
    /\ (pc = "mapped") => \A id \in DOMAIN bodyMap : OrbitsFlagFollowsRelation(bodyMap[id])

\* C28: in buildBodyMap, a body with the virtual-root id that names that id
\* as its parent is not rerouted: its map entry has parentId -1 and
\* orbitsBarycenter false, and its id is in the children list of no entry,
\* its own included.
RootSelfParentIsCleared ==
    (pc = "mapped" /\ kExternalVirtualBarycenterMarkerId \in DOMAIN bodyMap
        /\ LastEntryOf(bodies, kExternalVirtualBarycenterMarkerId).parentId
              = kExternalVirtualBarycenterMarkerId) =>
        /\ bodyMap[kExternalVirtualBarycenterMarkerId].parentId = -1
        /\ ~bodyMap[kExternalVirtualBarycenterMarkerId].orbitsBarycenter
        /\ \A id \in DOMAIN bodyMap :
              \A k \in DOMAIN bodyMap[id].children :
                  bodyMap[id].children[k] # kExternalVirtualBarycenterMarkerId

\* A map built from a list whose body 0 named itself as parent and whose
\* other body names body 0: body 0 is in the map without parent and has the
\* other body as its child.
RootSelfParentClearedWitness ==
    /\ pc = "mapped"
    /\ Len(bodies) = 2
    /\ bodies[1].id = 0 /\ bodies[1].parentId = 0
    /\ bodies[2].id > 0 /\ bodies[2].parentId = 0
    /\ bodyMap[0].parentId = -1
    /\ bodyMap[0].children = <<bodies[2].id>>

RECURSIVE ReturnsTo(_, _, _, _)
\* Following parentId from `at` comes to `target` within `hops` more steps.
ReturnsTo(bodyById, at, target, hops) ==
    /\ hops > 0
    /\ at \in DOMAIN bodyById
    /\ \/ bodyById[at].parentId = target
       \/ ReturnsTo(bodyById, bodyById[at].parentId, target, hops - 1)

\* No walk along parentId comes back to the body it started from.
ParentEdgesAcyclic(list) ==
    \A id \in KnownIds(list) : ~ReturnsTo(BodyById(list), id, id, Len(list))

\* C29: whenever prepareBodiesForGraph reports the hierarchy valid, the
\* parentId edges of the list are acyclic, also on walks that pass through a
\* Star-class body or the body with id 0.
ValidHierarchyIsAcyclic ==
    (signal.name = "systemBodiesReady") => ParentEdgesAcyclic(signal.bodies)

\* The list is closed and passes the reachability check.
ClosedAndValid(list) ==
    /\ prepareBodiesForGraph(list).bodies = list
    /\ validateHierarchyCanReachStarOrCenterRoot(list).allValid

\* C30: if both input lists are closed and pass the reachability check, the
\* list mergeBodies returns passes it too once prepareBodiesForGraph was
\* applied to it.
MergedValidListsAreValid ==
    (pc = "prepared" /\ ClosedAndValid(edsmBodies) /\ ClosedAndValid(spanshBodies)) =>
        /\ hierarchyValid = TRUE
        /\ validateHierarchyCanReachStarOrCenterRoot(bodies).allValid

\* Two valid lists that disagree on which of the planets 1 and 2 orbits the
\* other were merged and the merged list was prepared.
MergedOpposedParentsWitness ==
    /\ pc = "prepared"
    /\ ClosedAndValid(edsmBodies) /\ ClosedAndValid(spanshBodies)
    /\ \E i \in DOMAIN edsmBodies :
          edsmBodies[i].id = 1 /\ edsmBodies[i].parentId = 2
            /\ edsmBodies[i].bodyClass = "Planet"
    /\ \E i \in DOMAIN spanshBodies :
          spanshBodies[i].id = 2 /\ spanshBodies[i].parentId = 1
            /\ spanshBodies[i].bodyClass = "Planet"
====
